---- MODULE Spec2Model ----
(***************************************************************************)
(* A model of the BashEnv interpreter (src/src/types.ts, class BashEnv,    *)
(* lines 629-1672) with the leaf commands echo and head and the VirtualFs  *)
(* operations the interpreter calls.                                       *)
(*                                                                         *)
(* Text is a sequence of atoms: an atom stands for one maximal run of      *)
(* identifier characters or one other character, so "X=1" is               *)
(* <<"X", "=", "1">>, the empty string is <<>> and string concatenation    *)
(* is \o.  A command line is held in the form the statement parser         *)
(* (./shell/index.js) hands to the engine.                                 *)
(*                                                                         *)
(* Every async function of the class is a frame kind on a per-task stack;  *)
(* an action is the code between two awaits of one frame.                  *)
(***************************************************************************)
EXTENDS Integers, Sequences, FiniteSets, TLC

VARIABLES
    fs,            \* VirtualFs.data: path -> entry
    env,           \* BashEnv.env: a function whose domain is the set of keys
    functions,     \* BashEnv.functions: name -> body
    localScopes,   \* BashEnv.localScopes: stack of maps name -> saved value
    callDepth,     \* BashEnv.callDepth
    commandCount,  \* BashEnv.commandCount
    limits,        \* maxCallDepth, maxCommandCount, maxLoopIterations
    script,        \* per task: the lines its caller passes to exec, one call after the other
    results,       \* per task: the outcomes of its finished top-level exec calls
    stack,         \* per task: the frames of its active async calls, innermost last
    ret,           \* per task: the value a finished callee hands to the awaiting frame
    running,       \* the task that holds the thread between two awaits, 0 if none
    calls,         \* observation, per task: the active function calls, innermost last,
                   \* each with the env at its entry and, for every name it declared
                   \* local, the value the name had at the first declaration
    lastPipeline,  \* observation: the last executePipeline call that returned
    lastCall,      \* observation: the last function call that returned
    cwd,           \* BashEnv.cwd
    previousDir,   \* BashEnv.previousDir
    checks         \* observation, per task: in its current top-level exec call, the
                   \* number of exec entries that got past the command-count check
                   \* and whether one did not

vars == <<fs, env, functions, localScopes, callDepth, commandCount, limits,
          script, results, stack, ret, running, calls, lastPipeline, lastCall,
          cwd, previousDir, checks>>

shell == <<fs, env, functions, localScopes, callDepth, commandCount, limits,
           cwd, previousDir>>

----------------------------------------------------------------------------
(* Bounds of the model *)

MaxStages == 3      \* stages of an enumerated pipeline
MaxNumeral == 300   \* the largest number an atom of digits stands for

Tasks == {1, 2}

\* the value `undefined` of a scope entry saved for a name that was not set
Absent == <<"<undefined>">>

----------------------------------------------------------------------------
(* Strings *)

Min(a, b) == IF a < b THEN a ELSE b

\* String.prototype.indexOf, 1-based; 0 when the atom does not occur
IndexOf(s, a) ==
    IF \E i \in 1..Len(s) : s[i] = a
    THEN CHOOSE i \in 1..Len(s) : s[i] = a /\ \A j \in 1..(i - 1) : s[j] # a
    ELSE 0

\* String.prototype.slice(from - 1), 1-based
SliceFrom(s, from) == SubSeq(s, from, Len(s))

RECURSIVE Join(_, _)
\* Array.prototype.join
Join(words, sep) ==
    IF words = <<>> THEN <<>>
    ELSE IF Len(words) = 1 THEN words[1]
    ELSE words[1] \o sep \o Join(Tail(words), sep)

RECURSIVE Split(_, _)
\* String.prototype.split on one separator atom
Split(s, sep) ==
    LET k == IndexOf(s, sep) IN
    IF k = 0 THEN <<s>>
    ELSE <<SubSeq(s, 1, k - 1)>> \o Split(SliceFrom(s, k + 1), sep)

NL == "\n"
SP == " "

Result(out, err, code) == [stdout |-> out, stderr |-> err, exitCode |-> code]

EmptyResult == Result(<<>>, <<>>, 0)

----------------------------------------------------------------------------
(* VirtualFs: data is a function whose domain is the set of stored paths *)

FileEntry(content) == [type |-> "file", content |-> content]

DirEntry == [type |-> "directory", content |-> <<>>]

Root == <<"/">>

\* String.prototype.lastIndexOf, 1-based; 0 when the atom does not occur
LastIndexOf(s, a) ==
    IF \E i \in 1..Len(s) : s[i] = a
    THEN CHOOSE i \in 1..Len(s) : s[i] = a /\ \A j \in (i + 1)..Len(s) : s[j] # a
    ELSE 0

\* VirtualFs.dirname of a normalized path
Dirname(path) ==
    IF path = Root THEN Root
    ELSE LET lastSlash == LastIndexOf(path, "/") IN
         IF lastSlash = 1 THEN Root ELSE SubSeq(path, 1, lastSlash - 1)

RECURSIVE EnsureParentDirs(_, _)
\* VirtualFs.ensureParentDirs
EnsureParentDirs(data, path) ==
    LET dir == Dirname(path) IN
    IF dir = Root THEN data
    ELSE IF dir \notin DOMAIN data
    THEN (dir :> DirEntry) @@ EnsureParentDirs(data, dir)
    ELSE data

\* VirtualFs.writeFileSync
FsWriteFileSync(data, path, content) ==
    (path :> FileEntry(content)) @@ EnsureParentDirs(data, path)

\* VirtualFs.readFile: the content, or the error it throws
FsReadFile(data, path) ==
    IF path \notin DOMAIN data
    THEN [ok |-> FALSE, error |-> "ENOENT", content |-> <<>>]
    ELSE IF data[path].type # "file"
    THEN [ok |-> FALSE, error |-> "EISDIR", content |-> <<>>]
    ELSE [ok |-> TRUE, error |-> "", content |-> data[path].content]

\* the write is lost
FsWriteFileLost(data, path, content) == [ok |-> TRUE, error |-> "", data |-> data]

\* VirtualFs.writeFile
FsWriteFile(data, path, content) ==
    [ok |-> TRUE, error |-> "", data |-> FsWriteFileSync(data, path, content)]

\* VirtualFs.appendFile: throws on a directory
FsAppendFile(data, path, content) ==
    IF path \in DOMAIN data /\ data[path].type = "directory"
    THEN [ok |-> FALSE, error |-> "EISDIR", data |-> data]
    ELSE LET currentContent == IF path \in DOMAIN data /\ data[path].type = "file"
                               THEN data[path].content ELSE <<>>
         IN [ok |-> TRUE, error |-> "",
             data |-> FsWriteFileSync(data, path, currentContent \o content)]

RECURSIVE ResolveParts(_, _)
\* VirtualFs.normalizePath: the loop over the parts, `..` dropping the part before it
ResolveParts(parts, resolved) ==
    IF parts = <<>> THEN resolved
    ELSE IF Head(parts) = <<>> \/ Head(parts) = <<".">>
    THEN ResolveParts(Tail(parts), resolved)
    ELSE IF Head(parts) = <<".", ".">>
    THEN ResolveParts(Tail(parts), SubSeq(resolved, 1, Len(resolved) - 1))
    ELSE ResolveParts(Tail(parts), Append(resolved, Head(parts)))

\* VirtualFs.normalizePath
NormalizePath(path) ==
    IF path = <<>> \/ path = Root THEN Root
    ELSE LET trimmed == IF path[Len(path)] = "/" THEN SubSeq(path, 1, Len(path) - 1)
                        ELSE path
             rooted == IF trimmed = <<>> \/ trimmed[1] # "/" THEN <<"/">> \o trimmed
                       ELSE trimmed
         IN \* `const parts = normalized.split("/")`: the parts are split off once
            CHOOSE joined \in {<<"/">> \o Join(ResolveParts(parts, <<>>), <<"/">>) :
                                  parts \in {Split(rooted, "/")}} : TRUE

\* VirtualFs.resolvePath
FsResolvePath(base, path) ==
    IF path # <<>> /\ path[1] = "/" THEN NormalizePath(path)
    ELSE NormalizePath(IF base = Root THEN <<"/">> \o path ELSE base \o <<"/">> \o path)

\* VirtualFs.stat: the entry, or the error it throws
FsStat(data, path) ==
    LET normalized == NormalizePath(path) IN
    IF normalized \notin DOMAIN data THEN [ok |-> FALSE, isDirectory |-> FALSE]
    ELSE [ok |-> TRUE, isDirectory |-> data[normalized].type = "directory"]

----------------------------------------------------------------------------
(* Leaf commands *)

HeadLines == 10

\* headCommand.execute
HeadExecute(args, stdin, data) ==
    IF args = <<>>
    THEN LET split == Split(stdin, NL)
             hadTrailingNewline == stdin # <<>> /\ stdin[Len(stdin)] = NL
             inputLines == IF hadTrailingNewline /\ split[Len(split)] = <<>>
                           THEN SubSeq(split, 1, Len(split) - 1) ELSE split
             selected == SubSeq(inputLines, 1, Min(HeadLines, Len(inputLines)))
             output == Join(selected, <<NL>>)
         IN Result(output \o (IF output # <<>> THEN <<NL>> ELSE <<>>), <<>>, 0)
    ELSE LET read == FsReadFile(data, args[1]) IN
         IF read.ok
         THEN LET contentLines == Split(read.content, NL)
                  selected == SubSeq(contentLines, 1, Min(HeadLines, Len(contentLines)))
                  out == Join(selected, <<NL>>)
                  endsNL == read.content # <<>> /\ read.content[Len(read.content)] = NL
                  outEndsNL == out # <<>> /\ out[Len(out)] = NL
              IN Result(IF (Len(selected) < Len(contentLines) \/ endsNL) /\ ~outEndsNL
                        THEN out \o <<NL>> ELSE out, <<>>, 0)
         ELSE Result(<<>>,
                     <<"head: cannot open '">> \o args[1]
                         \o <<"' for reading: No such file or directory", NL>>,
                     1)

\* echoCommand.execute (no flag among the arguments)
EchoExecute(args) == Result(Join(args, <<SP>>) \o <<NL>>, <<>>, 0)

\* a command the caller adds with registerCommand: its execute throws
\* new Error("failed")
Throwing == {<<"boom">>}

ThrownMessage == <<"failed">>

Registered == {<<"echo">>, <<"head">>} \cup Throwing

\* Command.execute of the registered command `name`
Execute(name, args, stdin, data) ==
    IF name = <<"echo">> THEN EchoExecute(args) ELSE HeadExecute(args, stdin, data)

----------------------------------------------------------------------------
(* Command lines *)

Plain(args) == [i \in 1..Len(args) |-> FALSE]

Cmd(command, args) ==
    [command |-> command, args |-> args, quotedArgs |-> Plain(args), redirections |-> <<>>]

CmdTo(command, args, redirections) ==
    [command |-> command, args |-> args, quotedArgs |-> Plain(args),
     redirections |-> redirections]

Stage(operator, negationCount, parsed) ==
    [parsed |-> parsed, operator |-> operator, negationCount |-> negationCount]

Pipeline(commands) == [commands |-> commands]

Simple(commands) == [kind |-> "simple", pipelines |-> <<Pipeline(commands)>>]

EmptyLine == [kind |-> "empty"]

\* `branch.condition === null`: the else branch
NullCondition == [kind |-> "null"]

Branch(condition, body) == [condition |-> condition, body |-> body]

If(branches) == [kind |-> "if", branches |-> branches]

For(varName, items, body) ==
    [kind |-> "for", varName |-> varName, items |-> items, body |-> body]

While(condition, body) == [kind |-> "while", condition |-> condition, body |-> body]

Until(condition, body) == [kind |-> "until", condition |-> condition, body |-> body]

Function(name, body) == [kind |-> "function", name |-> name, body |-> body]

----------------------------------------------------------------------------
(* Environment and expansion *)

EnvGet(e, name) == IF name \in DOMAIN e THEN e[name] ELSE Absent

EnvSet(e, name, value) == (name :> value) @@ e

EnvDelete(e, name) == [n \in DOMAIN e \ {name} |-> e[n]]

\* the fallback also for a name set to the empty string: `||` for `??`
EnvOrNonEmpty(e, name, fallback) ==
    IF name \in DOMAIN e /\ e[name] # <<>> THEN e[name] ELSE fallback

\* `this.env[name] ?? fallback`
EnvOr(e, name, fallback) == IF name \in DOMAIN e THEN e[name] ELSE fallback

SpecialChars == {"@", "#", "$", "?", "!", "*"}

Digits == {"0", "1", "2", "3", "4", "5", "6", "7", "8", "9"}

\* atoms that are identifiers: /[A-Za-z_][A-Za-z0-9_]*/
Identifiers == {"X", "Y", "v", "f", "g", "NAME"}

RECURSIVE ExpandVariables(_, _)
\* BashEnv.expandVariables
ExpandVariables(str, e) ==
    IF str = <<>> THEN <<>>
    ELSE IF str[1] = "$" /\ Len(str) >= 2
    THEN LET nextChar == str[2]
             closeIndex == IndexOf(SliceFrom(str, 3), "}") + 2
             content == SubSeq(str, 3, closeIndex - 1)
             colon == IndexOf(content, ":")
             defaultMatch == colon >= 2 /\ Len(content) > colon /\ content[colon + 1] = "-"
         IN IF nextChar = "{" /\ closeIndex > 2
            THEN (IF defaultMatch
                  THEN EnvOr(e, SubSeq(content, 1, colon - 1), SliceFrom(content, colon + 2))
                  ELSE EnvOr(e, content, <<>>))
                 \o ExpandVariables(SliceFrom(str, closeIndex + 1), e)
            ELSE IF nextChar \in SpecialChars \/ nextChar \in Digits
                    \/ nextChar \in Identifiers
            THEN EnvOr(e, <<nextChar>>, <<>>) \o ExpandVariables(SliceFrom(str, 3), e)
            ELSE <<str[1]>> \o ExpandVariables(Tail(str), e)
    ELSE <<str[1]>> \o ExpandVariables(Tail(str), e)

\* executeCommand: `args.map((arg, i) => quotedArgs[i] ? arg : this.expandVariables(arg))`;
\* no argument of the model holds a glob character, so GlobExpander leaves them as they are
ExpandArgs(args, quotedArgs, e) ==
    [i \in 1..Len(args) |-> IF quotedArgs[i] THEN args[i] ELSE ExpandVariables(args[i], e)]

----------------------------------------------------------------------------
(* Frames *)

ExecFrame(commandLine) ==
    [fn |-> "exec", pc |-> "entry", commandLine |-> commandLine,
     k |-> 1, stdin |-> <<>>, lastResult |-> EmptyResult]

\* `given` and `log` observe the call: the stdin handed to the running stage, and
\* for every stage executed so far its index, that stdin and the result of executeCommand
PipelineFrame(pipeline, initialStdin) ==
    [fn |-> "executePipeline", pc |-> "loop", pipeline |-> pipeline,
     initialStdin |-> initialStdin, stdin |-> initialStdin, lastResult |-> EmptyResult,
     accumulatedStdout |-> <<>>, accumulatedStderr |-> <<>>,
     currentNegationCount |-> 0, i |-> 1, given |-> <<>>, log |-> <<>>]

\* `cd` holds the locals of handleCd
CommandFrame(parsed, stdin) ==
    [fn |-> "executeCommand", pc |-> "start", command |-> parsed.command,
     args |-> parsed.args, quotedArgs |-> parsed.quotedArgs,
     redirections |-> parsed.redirections, stdin |-> stdin,
     expandedCommand |-> <<>>, expandedArgs |-> <<>>, result |-> EmptyResult,
     cd |-> [target |-> <<>>, newDir |-> <<>>, stat |-> FsStat(<<>>, Root)]]

\* executeIfStatement with the branches parseIfStatement returns; `trace` observes the
\* conditions that were evaluated, each with the result it returned
IfFrame(line) ==
    [fn |-> "executeIfStatement", pc |-> "branch", branches |-> line.branches, b |-> 1,
     stdout |-> <<>>, stderr |-> <<>>, exitCode |-> 0, trace |-> <<>>]

\* an observed nested exec of a condition or a body, with the result it returned
Event(kind, result) == [kind |-> kind, result |-> result]

\* executeForLoopBody with the items of the list, split at whitespace; `trace` observes
\* the body executions that returned, `bound` the value of the variable at the start
\* of each body execution
ForFrame(line) ==
    [fn |-> "executeForLoopBody", pc |-> "loop", varName |-> line.varName,
     items |-> line.items, item |-> 1, body |-> line.body,
     stdout |-> <<>>, stderr |-> <<>>, exitCode |-> 0, iterations |-> 0,
     trace |-> <<>>, bound |-> <<>>]

\* `trace` observes the condition evaluations and body executions that returned
WhileFrame(line) ==
    [fn |-> "executeWhileLoopBody", pc |-> "loop", condition |-> line.condition,
     body |-> line.body, stdout |-> <<>>, stderr |-> <<>>, exitCode |-> 0,
     iterations |-> 0, trace |-> <<>>]

UntilFrame(line) ==
    [fn |-> "executeUntilLoopBody", pc |-> "loop", condition |-> line.condition,
     body |-> line.body, stdout |-> <<>>, stderr |-> <<>>, exitCode |-> 0,
     iterations |-> 0, trace |-> <<>>]

Depth(t) == Len(stack[t])

Top(t) == stack[t][Len(stack[t])]

At(t, fn, pc) == /\ running \in {0, t}
                 /\ stack[t] # <<>>
                 /\ Top(t).fn = fn
                 /\ Top(t).pc = pc

Resolved(value) == [kind |-> "resolved", value |-> value]

Rejected(error) == [kind |-> "rejected", error |-> error]

\* the top frame goes on, in the same synchronous run
Goto(t, frame) ==
    /\ stack' = [stack EXCEPT ![t] = [@ EXCEPT ![Len(@)] = frame]]
    /\ ret' = [ret EXCEPT ![t] = <<>>]
    /\ running' = t
    /\ UNCHANGED results

\* the top frame awaits a promise of the filesystem or of a command
Await(t, frame) ==
    /\ stack' = [stack EXCEPT ![t] = [@ EXCEPT ![Len(@)] = frame]]
    /\ ret' = [ret EXCEPT ![t] = <<>>]
    /\ running' = 0
    /\ UNCHANGED results

\* the top frame calls an async function and awaits it: the callee runs on
Invoke(t, frame, callee) ==
    /\ stack' = [stack EXCEPT ![t] = Append([@ EXCEPT ![Len(@)] = frame], callee)]
    /\ ret' = [ret EXCEPT ![t] = <<>>]
    /\ running' = t
    /\ UNCHANGED results

\* the top frame returns: its promise resolves, and the awaiting frame (or the
\* caller of the top-level exec) goes on in a later turn
Return(t, value) ==
    /\ stack' = [stack EXCEPT ![t] = SubSeq(@, 1, Len(@) - 1)]
    /\ IF Len(stack[t]) = 1
       THEN /\ results' = [results EXCEPT ![t] = Append(@, Resolved(value))]
            /\ ret' = [ret EXCEPT ![t] = <<>>]
       ELSE /\ ret' = [ret EXCEPT ![t] = <<value>>]
            /\ UNCHANGED results
    /\ running' = 0

\* an error is thrown in the top frame: no frame of the class catches it (the only
\* try/catch of the engine are around readFile for `<` and around cmd.execute), so
\* every awaiting frame rejects in turn and the top-level exec promise rejects
Throw(t, error) ==
    /\ stack' = [stack EXCEPT ![t] = <<>>]
    /\ results' = [results EXCEPT ![t] = Append(@, Rejected(error))]
    /\ ret' = [ret EXCEPT ![t] = <<>>]
    /\ running' = 0

----------------------------------------------------------------------------
(* parseIfStatement: the text of an if statement, a sequence of atoms in which a word,
   a space and a `;` are one atom each *)

RECURSIVE TrimStart(_)
TrimStart(text) ==
    IF text # <<>> /\ Head(text) = SP THEN TrimStart(Tail(text)) ELSE text

RECURSIVE TrimEnd(_)
TrimEnd(text) ==
    IF text # <<>> /\ text[Len(text)] = SP THEN TrimEnd(SubSeq(text, 1, Len(text) - 1))
    ELSE text

\* String.prototype.trim
Trim(text) == TrimEnd(TrimStart(text))

RECURSIVE SkipAtoms(_, _, _)
\* `while (pos < rest.length && (rest[pos] === ";" || rest[pos] === " ")) pos++`
SkipAtoms(rest, pos, skipped) ==
    IF pos <= Len(rest) /\ rest[pos] \in skipped THEN SkipAtoms(rest, pos + 1, skipped)
    ELSE pos

\* a branch as parseIfStatement holds it: `condition: string | null`
TextBranch(null, condition, body) == [null |-> null, condition |-> condition, body |-> body]

\* the locals of parseIfStatement at the head of its loop
ParseIfStart ==
    [pos |-> 1, depth |-> 1, state |-> "condition", currentCondition |-> <<>>,
     currentBody |-> <<>>, branches |-> <<>>]

\* parseIfStatement, at `elif` and at `else`:
\* `if (currentCondition.trim() || currentBody.trim()) branches.push(...)`
SaveBranch(s) ==
    IF Trim(s.currentCondition) # <<>> \/ Trim(s.currentBody) # <<>>
    THEN Append(s.branches, TextBranch(FALSE, Trim(s.currentCondition), Trim(s.currentBody)))
    ELSE s.branches

\* parseIfStatement: one turn of `while (pos < rest.length && depth > 0)`; /^if\s/ is
\* tried at every character, so behind the first if it also matches the end of `elif `
ParseIfStep(rest, s) ==
    LET a == rest[s.pos]
        next == IF s.pos < Len(rest) THEN rest[s.pos + 1] ELSE ""
        ends == next \in {SP, ";", ""}
        add(text) == IF s.state = "condition"
                     THEN [s EXCEPT !.currentCondition = @ \o text]
                     ELSE [s EXCEPT !.currentBody = @ \o text]
    IN IF a = "if" /\ next = SP
       THEN [add(<<"if", SP>>) EXCEPT !.pos = s.pos + 2, !.depth = s.depth + 1]
       ELSE IF a = "fi" /\ ends
       THEN IF s.depth = 1
            THEN [s EXCEPT !.depth = 0,
                           !.branches =
                               IF s.state = "body"
                               THEN Append(@, TextBranch(Trim(s.currentCondition) = <<>>,
                                                         Trim(s.currentCondition),
                                                         Trim(s.currentBody)))
                               ELSE @]
            ELSE [add(<<"fi">>) EXCEPT !.pos = s.pos + 1, !.depth = s.depth - 1]
       ELSE IF s.depth = 1 /\ a = "then" /\ ends
       THEN [s EXCEPT !.state = "body", !.pos = SkipAtoms(rest, s.pos + 1, {";", SP})]
       ELSE IF s.depth = 1 /\ a = "elif" /\ next = SP
       THEN [s EXCEPT !.branches = SaveBranch(s), !.currentCondition = <<>>,
                      !.currentBody = <<>>, !.state = "condition", !.pos = s.pos + 2]
       ELSE IF s.depth = 1 /\ a = "else" /\ ends
       THEN [s EXCEPT !.branches = SaveBranch(s), !.currentCondition = <<>>,
                      !.currentBody = <<>>, !.state = "body",
                      !.pos = SkipAtoms(rest, s.pos + 1, {";", SP})]
       ELSE IF a = "elif" /\ next = SP
       THEN [add(<<"el", "if", SP>>) EXCEPT !.pos = s.pos + 2, !.depth = s.depth + 1]
       ELSE IF s.state = "condition" /\ a = ";"
       THEN [s EXCEPT !.pos = SkipAtoms(rest, s.pos + 1, {SP})]
       ELSE [add(<<a>>) EXCEPT !.pos = s.pos + 1]

RECURSIVE ParseIfLoop(_, _)
ParseIfLoop(rest, s) ==
    IF s.pos <= Len(rest) /\ s.depth > 0 THEN ParseIfLoop(rest, ParseIfStep(rest, s))
    ELSE s

\* parseIfStatement: the branches, or the error
ParseIfStatement(input) ==
    LET trimmed == Trim(input)
        starts == Len(trimmed) >= 2 /\ trimmed[1] = "if" /\ trimmed[2] \in {SP, ";"}
        s == ParseIfLoop(Trim(Tail(trimmed)), ParseIfStart)
        n == Len(s.branches)
        branches == IF n > 0 /\ s.branches[n].condition = <<>>
                    THEN [s.branches EXCEPT ![n].null = TRUE]
                    ELSE s.branches
    IN IF ~starts
       THEN [branches |-> <<>>, error |-> <<"bash: syntax error near unexpected token", NL>>]
       ELSE IF s.depth # 0
       THEN [branches |-> <<>>, error |-> <<"bash: syntax error: unexpected end of file", NL>>]
       ELSE IF n = 0
       THEN [branches |-> <<>>, error |-> <<"bash: syntax error near unexpected token", NL>>]
       ELSE [branches |-> branches, error |-> <<>>]

\* the texts the if statements of the model hold, with the form the statement parser
\* hands to the engine for each: echo a;   echo b;   echo c   head /missing
TextLines ==
    LET word(command, args) ==
            Simple(<<Stage("", 0, Cmd(<<command>>, args))>>)
    IN (<<"echo", SP, "a", ";">> :> word("echo", <<<<"a">>>>))
       @@ (<<"echo", SP, "b", ";">> :> word("echo", <<<<"b">>>>))
       @@ (<<"echo", SP, "c">> :> word("echo", <<<<"c">>>>))
       @@ (<<"head", SP, "/", "missing">> :> word("head", <<<<"/", "missing">>>>))

IfText(text) == [kind |-> "iftext", text |-> text]

\* the line exec makes of a text: the empty line of the empty text, and a command of
\* that name of a text the table does not hold
LineOf(text) ==
    IF text = <<>> THEN EmptyLine
    ELSE IF Len(text) >= 2 /\ text[1] = "if" /\ text[2] \in {SP, ";"} THEN IfText(text)
    ELSE IF text \in DOMAIN TextLines THEN TextLines[text]
    ELSE Simple(<<Stage("", 0, Cmd(text, <<>>))>>)

\* the branches executeIfStatement loops over
BranchLines(branches) ==
    [i \in 1..Len(branches) |->
        Branch(IF branches[i].null THEN NullCondition ELSE LineOf(branches[i].condition),
               LineOf(branches[i].body))]


----------------------------------------------------------------------------
(* exec *)

\* exec: `if (this.callDepth === 0) this.commandCount = 0`
ResetCount(depth, count) == IF depth = 0 THEN 0 ELSE count

\* exec: `this.commandCount > this.maxCommandCount`
CountExceeded(count, max) == count > max

CommandCountMessage(max) ==
    <<"bash: maximum command count (", ToString(max),
      ") exceeded (possible infinite loop). Increase with maxCommandCount option.", NL>>

\* no pipeline has completed in the call
NoPipeline ==
    [pipeline |-> Pipeline(<<>>), initialStdin |-> <<>>, log |-> <<>>,
     result |-> Result(<<>>, <<>>, 0), depth |-> 0]

\* no exec entry has been made in the call
NoChecks == [passed |-> 0, breached |-> FALSE]

\* the caller of the instance calls exec(line) with its next line, once the promise
\* of its previous call is settled: results[t][k] is the outcome of script[t][k]
Call(t) ==
    /\ running = 0
    /\ stack[t] = <<>>
    /\ Len(results[t]) < Len(script[t])
    /\ stack' = [stack EXCEPT ![t] = <<ExecFrame(script[t][Len(results[t]) + 1])>>]
    /\ running' = t
    /\ lastPipeline' = NoPipeline
    /\ checks' = [checks EXCEPT ![t] = NoChecks]
    /\ UNCHANGED <<shell, script, results, ret, calls, lastCall>>

\* exec, from its entry to the dispatch on the kind of line
ExecEntry(t) ==
    /\ At(t, "exec", "entry")
    /\ LET f == Top(t)
           line == f.commandLine
           count == ResetCount(callDepth, commandCount) + 1
           exceeded == CountExceeded(count, limits.maxCommandCount)
       IN /\ commandCount' = count
          /\ checks' = [checks EXCEPT ![t] =
                           IF exceeded THEN [@ EXCEPT !.breached = TRUE]
                           ELSE [@ EXCEPT !.passed = @ + 1]]
          /\ functions' = IF ~exceeded /\ line.kind = "function"
                          THEN (line.name :> line.body) @@ functions
                          ELSE functions
          /\ IF exceeded
             THEN Return(t, Result(<<>>, CommandCountMessage(limits.maxCommandCount), 1))
             ELSE IF line.kind \in {"empty", "function"}
             THEN Return(t, EmptyResult)
             ELSE IF line.kind = "if" THEN Goto(t, IfFrame(line))
             ELSE IF line.kind = "iftext"
             THEN LET parsed == ParseIfStatement(line.text) IN
                  IF parsed.error # <<>>
                  THEN Return(t, Result(<<>>, parsed.error, 2))
                  ELSE Goto(t, IfFrame(If(BranchLines(parsed.branches))))
             ELSE IF line.kind = "for" THEN Goto(t, ForFrame(line))
             ELSE IF line.kind = "while" THEN Goto(t, WhileFrame(line))
             ELSE IF line.kind = "until" THEN Goto(t, UntilFrame(line))
             ELSE Goto(t, [f EXCEPT !.pc = "pipelines"])
    /\ UNCHANGED <<fs, env, localScopes, callDepth, limits, cwd, previousDir, script, calls,
                   lastPipeline, lastCall>>

\* exec: the head of `for (const pipeline of pipelines)`, and `return lastResult`
ExecPipelines(t) ==
    /\ At(t, "exec", "pipelines")
    /\ LET f == Top(t) IN
       IF f.k <= Len(f.commandLine.pipelines)
       THEN Invoke(t, [f EXCEPT !.pc = "pipelineDone"],
                   PipelineFrame(f.commandLine.pipelines[f.k], f.stdin))
       ELSE Return(t, f.lastResult)
    /\ UNCHANGED <<shell, script, checks, calls, lastPipeline, lastCall>>

\* exec: after `await this.executePipeline(pipeline, stdin)`
ExecPipelineDone(t) ==
    /\ At(t, "exec", "pipelineDone")
    /\ ret[t] # <<>>
    /\ LET f == Top(t)
           result == ret[t][1]
       IN Goto(t, [f EXCEPT !.stdin = result.stdout, !.lastResult = result,
                            !.k = @ + 1, !.pc = "pipelines"])
    /\ UNCHANGED <<shell, script, checks, calls, lastPipeline, lastCall>>

----------------------------------------------------------------------------
(* executePipeline *)

\* `if (operator !== "" || i === 0) currentNegationCount = negationCount || 0`
CaptureNegation(operator, i, negationCount, current) ==
    IF operator # "" \/ i = 1 THEN negationCount ELSE current

\* the `||` test left out
SkipStageAndOnly(operator, exitCode) == operator = "&&" /\ exitCode # 0

\* `if (operator === "&&" && lastResult.exitCode !== 0) continue;`
\* `if (operator === "||" && lastResult.exitCode === 0) continue;`
SkipStage(operator, exitCode) ==
    \/ operator = "&&" /\ exitCode # 0
    \/ operator = "||" /\ exitCode = 0

\* `isPipedInput && i > 0 ? stdin : initialStdin`
CommandStdin(operator, i, stdin, initialStdin) ==
    IF operator = "" /\ i > 1 THEN stdin ELSE initialStdin

\* `nextCommand?.operator || ""`
NextOperator(commands, i) ==
    IF i < Len(commands) THEN commands[i + 1].operator ELSE ""

\* the test for the last stage left out
PipesOutAtEnd(nextOperator, i, n) == nextOperator = ""

\* `isPipedOutput && i < pipeline.commands.length - 1`
PipesOut(nextOperator, i, n) == nextOperator = "" /\ i < n

\* every count above 0 inverts
NegateAnyCount(result, negationCount) ==
    IF negationCount > 0
    THEN [result EXCEPT !.exitCode = IF @ = 0 THEN 1 ELSE 0]
    ELSE result

\* the end of a segment: `if (currentNegationCount % 2 === 1) result = {...}`
Negate(result, negationCount) ==
    IF negationCount % 2 = 1
    THEN [result EXCEPT !.exitCode = IF @ = 0 THEN 1 ELSE 0]
    ELSE result

\* the result of the last stage returned as it is
PipelineResultOfLast(accumulatedStdout, accumulatedStderr, lastResult) == lastResult

\* the return of executePipeline
PipelineResult(accumulatedStdout, accumulatedStderr, lastResult) ==
    Result(accumulatedStdout, accumulatedStderr, lastResult.exitCode)

\* executePipeline: the head of the loop over the stages, and the final return
PipelineStage(t) ==
    /\ At(t, "executePipeline", "loop")
    /\ LET f == Top(t)
           commands == f.pipeline.commands
       IN IF f.i > Len(commands)
          THEN LET value == PipelineResult(f.accumulatedStdout, f.accumulatedStderr,
                                           f.lastResult)
               IN /\ lastPipeline' = [pipeline |-> f.pipeline,
                                      initialStdin |-> f.initialStdin,
                                      log |-> f.log, result |-> value,
                                      depth |-> Depth(t)]
                  /\ Return(t, value)
          ELSE LET c == commands[f.i]
                   negation == CaptureNegation(c.operator, f.i, c.negationCount,
                                               f.currentNegationCount)
                   commandStdin == CommandStdin(c.operator, f.i, f.stdin, f.initialStdin)
               IN /\ UNCHANGED lastPipeline
                  /\ IF SkipStage(c.operator, f.lastResult.exitCode)
                     THEN Goto(t, [f EXCEPT !.currentNegationCount = negation,
                                            !.i = @ + 1])
                     ELSE Invoke(t, [f EXCEPT !.currentNegationCount = negation,
                                              !.given = commandStdin,
                                              !.pc = "stageDone"],
                                 CommandFrame(c.parsed, commandStdin))
    /\ UNCHANGED <<shell, script, checks, calls, lastCall>>

\* executePipeline: after `await this.executeCommand(...)`
PipelineStageDone(t) ==
    /\ At(t, "executePipeline", "stageDone")
    /\ ret[t] # <<>>
    /\ LET f == Top(t)
           returned == ret[t][1]
           commands == f.pipeline.commands
           piped == PipesOut(NextOperator(commands, f.i), f.i, Len(commands))
           result == IF piped THEN returned
                     ELSE Negate(returned, f.currentNegationCount)
       IN Goto(t, [f EXCEPT
               !.stdin = IF piped THEN result.stdout ELSE @,
               !.accumulatedStdout = IF piped THEN @ ELSE @ \o result.stdout,
               !.accumulatedStderr = @ \o result.stderr,
               !.lastResult = result,
               !.log = Append(@, [i |-> f.i, stdin |-> f.given, result |-> returned]),
               !.i = @ + 1,
               !.pc = "loop"])
    /\ UNCHANGED <<shell, script, checks, calls, lastPipeline, lastCall>>

----------------------------------------------------------------------------
(* executeCommand *)

\* VirtualFs.resolvePath for the absolute, normalized paths of the model
ResolvePath(path) == path

RECURSIVE StdinRedirections(_, _, _)
\* executeCommand: the loop over the `<` redirections, before the command runs
StdinRedirections(redirections, stdin, data) ==
    IF redirections = <<>> THEN [ok |-> TRUE, stdin |-> stdin, target |-> <<>>]
    ELSE LET redir == Head(redirections) IN
         IF redir.type = "stdin" /\ redir.target # <<>>
         THEN LET read == FsReadFile(data, ResolvePath(redir.target)) IN
              IF read.ok
              THEN StdinRedirections(Tail(redirections), read.content, data)
              ELSE [ok |-> FALSE, stdin |-> stdin, target |-> redir.target]
         ELSE StdinRedirections(Tail(redirections), stdin, data)

DevNull == <<"/", "dev", "/", "null">>

RECURSIVE ApplyRedirections(_, _, _)
\* BashEnv.applyRedirections: the result and the filesystem after the redirections,
\* or the error a filesystem call throws (the writes made before it stay)
ApplyRedirections(result, redirections, data) ==
    IF redirections = <<>>
    THEN [ok |-> TRUE, error |-> "", result |-> result, data |-> data]
    ELSE LET redir == Head(redirections)
             rest == Tail(redirections)
             text == IF redir.type = "stdout" THEN result.stdout ELSE result.stderr
             written == IF redir.append
                        THEN FsAppendFile(data, ResolvePath(redir.target), text)
                        ELSE FsWriteFile(data, ResolvePath(redir.target), text)
         IN IF redir.type = "stdout" /\ redir.target # <<>>
            THEN IF written.ok
                 THEN ApplyRedirections([result EXCEPT !.stdout = <<>>], rest, written.data)
                 ELSE [ok |-> FALSE, error |-> written.error, result |-> result,
                       data |-> data]
            ELSE IF redir.type = "stderr" /\ redir.target = DevNull
            THEN ApplyRedirections([result EXCEPT !.stderr = <<>>], rest, data)
            ELSE IF redir.type = "stderr" /\ redir.target # <<>>
            THEN IF written.ok
                 THEN ApplyRedirections([result EXCEPT !.stderr = <<>>], rest, written.data)
                 ELSE [ok |-> FALSE, error |-> written.error, result |-> result,
                       data |-> data]
            ELSE IF redir.type = "stderr-to-stdout"
            THEN ApplyRedirections([result EXCEPT !.stdout = @ \o result.stderr,
                                                  !.stderr = <<>>], rest, data)
            ELSE ApplyRedirections(result, rest, data)

\* handleLocal: `const eqIndex = arg.indexOf("="); if (eqIndex > 0) ...`
LocalName(arg) ==
    LET eqIndex == IndexOf(arg, "=") IN
    IF eqIndex > 1 THEN SubSeq(arg, 1, eqIndex - 1) ELSE arg

\* the record made again at every `local`
SaveOriginalAlways(currentScope, varName, e) == (varName :> EnvGet(e, varName)) @@ currentScope

\* handleLocal: `if (!currentScope.has(varName)) currentScope.set(varName, this.env[varName])`
SaveOriginal(currentScope, varName, e) ==
    IF varName \in DOMAIN currentScope THEN currentScope
    ELSE (varName :> EnvGet(e, varName)) @@ currentScope

RECURSIVE LocalArgs(_, _, _)
\* handleLocal: the loop over the arguments
LocalArgs(args, e, currentScope) ==
    IF args = <<>> THEN [env |-> e, scope |-> currentScope]
    ELSE LET arg == Head(args)
             eqIndex == IndexOf(arg, "=")
             varName == LocalName(arg)
             assigned == IF eqIndex > 1 THEN EnvSet(e, varName, SliceFrom(arg, eqIndex + 1))
                         ELSE IF varName \notin DOMAIN e THEN EnvSet(e, varName, <<>>)
                         ELSE e
         IN LocalArgs(Tail(args), assigned, SaveOriginal(currentScope, varName, e))

\* BashEnv.handleLocal
HandleLocal(args, e, scopes) ==
    IF scopes = <<>>
    THEN [result |-> Result(<<>>, <<"bash: local: can only be used in a function", NL>>, 1),
          env |-> e, localScopes |-> scopes]
    ELSE LET done == LocalArgs(args, e, scopes[Len(scopes)])
         IN [result |-> EmptyResult, env |-> done.env,
             localScopes |-> [scopes EXCEPT ![Len(scopes)] = done.scope]]

\* a name saved as undefined is left as the call set it
RestoreScopeNoDelete(e, localScope) ==
    [n \in DOMAIN e |->
        IF n \in DOMAIN localScope /\ localScope[n] # Absent THEN localScope[n] ELSE e[n]]

\* executeCommand: the loop over the popped scope that restores the shadowed names
RestoreScope(e, localScope) ==
    LET deleted == {n \in DOMAIN localScope : localScope[n] = Absent}
        restored == DOMAIN localScope \ deleted
    IN [n \in (DOMAIN e \ deleted) \cup restored |->
            IF n \in restored THEN localScope[n] ELSE e[n]]

\* the frame popped and nothing put back
PopScopeNoRestore(e, scopes) ==
    [env |-> e, localScopes |-> SubSeq(scopes, 1, Len(scopes) - 1)]

\* executeCommand: `this.localScopes.pop()` and the restoration
PopScope(e, scopes) ==
    IF scopes = <<>> THEN [env |-> e, localScopes |-> scopes]
    ELSE [env |-> RestoreScope(e, scopes[Len(scopes)]),
          localScopes |-> SubSeq(scopes, 1, Len(scopes) - 1)]

PositionalNames(args) == {<<ToString(i)>> : i \in 1..Len(args)}

\* executeCommand: `this.env[String(i + 1)] = expandedArgs[i]`, `@` and `#`
BindPositional(e, args) ==
    [n \in DOMAIN e \cup PositionalNames(args) \cup {<<"@">>, <<"#">>} |->
        IF n = <<"@">> THEN Join(args, <<SP>>)
        ELSE IF n = <<"#">> THEN <<ToString(Len(args))>>
        ELSE IF n \in PositionalNames(args)
        THEN args[CHOOSE i \in 1..Len(args) : n = <<ToString(i)>>]
        ELSE e[n]]

\* executeCommand: `delete this.env[String(i)]`, `@` and `#`
ClearPositional(e, args) ==
    [n \in DOMAIN e \ (PositionalNames(args) \cup {<<"@">>, <<"#">>}) |-> e[n]]

\* the test one call late
DepthExceededLate(depth, max) == depth > max + 1

\* `this.callDepth > this.maxCallDepth`, after the increment
DepthExceeded(depth, max) == depth > max

RecursionMessage(name, max) ==
    <<"bash: ">> \o name \o <<": maximum recursion depth (", ToString(max),
                               ") exceeded. Increase with maxCallDepth option.", NL>>

\* `const funcBody = this.functions.get(expandedCommand); if (funcBody)`:
\* an empty body is the empty string, which is falsy
IsFunction(name, funcs) == name \in DOMAIN funcs /\ funcs[name].kind # "empty"

\* `/^[a-zA-Z_][a-zA-Z0-9_]*$/.test(varName)`
ValidName(varName) == Len(varName) = 1 /\ varName[1] \in Identifiers

\* `expandedArgs.length === 0 && expandedCommand.includes("=")` with a valid name
IsAssignment(name, args) ==
    /\ args = <<>>
    /\ IndexOf(name, "=") > 0
    /\ ValidName(SubSeq(name, 1, IndexOf(name, "=") - 1))

\* `commandName = expandedCommand.split("/").pop() || expandedCommand`
CommandName(name) ==
    IF IndexOf(name, "/") > 0
    THEN LET last == Split(name, "/")[Len(Split(name, "/"))]
         IN IF last # <<>> THEN last ELSE name
    ELSE name

\* executeCommand, from its entry to `await globExpander.expandArgs(...)`
CommandStart(t) ==
    /\ At(t, "executeCommand", "start")
    /\ LET f == Top(t)
           redirected == StdinRedirections(f.redirections, f.stdin, fs)
       IN IF f.command = <<>>
          THEN Return(t, EmptyResult)
          ELSE IF ~redirected.ok
          THEN Return(t, Result(<<>>, <<"bash: ">> \o redirected.target
                                      \o <<": No such file or directory", NL>>, 1))
          ELSE Await(t, [f EXCEPT !.stdin = redirected.stdin,
                                  !.expandedCommand = ExpandVariables(f.command, env),
                                  !.expandedArgs = ExpandArgs(f.args, f.quotedArgs, env),
                                  !.pc = "dispatch"])
    /\ UNCHANGED <<shell, script, checks, calls, lastPipeline, lastCall>>

\* executeCommand: the builtin `local`
CommandLocal(t) ==
    /\ At(t, "executeCommand", "dispatch")
    /\ Top(t).expandedCommand = <<"local">>
    /\ LET f == Top(t)
           done == HandleLocal(f.expandedArgs, env, localScopes)
           names == {LocalName(f.expandedArgs[i]) : i \in 1..Len(f.expandedArgs)}
           first(call) == [n \in names \ DOMAIN call.locals |-> EnvGet(env, n)]
       IN /\ env' = done.env
          /\ localScopes' = done.localScopes
          /\ calls' = [calls EXCEPT ![t] =
                          IF @ = <<>> THEN @
                          ELSE [@ EXCEPT ![Len(@)].locals = first(calls[t][Len(calls[t])]) @@ @]]
          /\ Return(t, done.result)
    /\ UNCHANGED <<fs, functions, callDepth, commandCount, limits, cwd, previousDir, script, checks,
                   lastPipeline, lastCall>>

\* executeCommand: `VAR=value` with no argument
CommandAssign(t) ==
    /\ At(t, "executeCommand", "dispatch")
    /\ Top(t).expandedCommand # <<"local">>
    /\ IsAssignment(Top(t).expandedCommand, Top(t).expandedArgs)
    /\ LET name == Top(t).expandedCommand
           eqIndex == IndexOf(name, "=")
       IN /\ env' = EnvSet(env, SubSeq(name, 1, eqIndex - 1), SliceFrom(name, eqIndex + 1))
          /\ Return(t, EmptyResult)
    /\ UNCHANGED <<fs, functions, localScopes, callDepth, commandCount, limits, cwd, previousDir, script, checks,
                   calls, lastPipeline, lastCall>>

\* `this.env.HOME || "/"`
HomeOrRoot(e) == IF EnvOr(e, <<"HOME">>, <<>>) # <<>> THEN e[<<"HOME">>] ELSE Root

\* handleCd: `const target = args[0] || this.env.HOME || "/"`
CdTarget(args, e) == IF args # <<>> /\ args[1] # <<>> THEN args[1] ELSE HomeOrRoot(e)

\* handleCd: the directory the target stands for
CdNewDir(target, e, current, previous) ==
    IF target = <<"-">> THEN previous
    ELSE IF target = <<"~">> THEN HomeOrRoot(e)
    ELSE FsResolvePath(current, target)

\* every entry is taken for a directory
CdAllowedAnyEntry(stat) == stat.ok

\* handleCd: stat did not throw and `stat.isDirectory`
CdAllowed(stat) == stat.ok /\ stat.isDirectory

\* executeCommand, the builtin `cd`: handleCd up to `await this.fs.stat(newDir)`
CommandCd(t) ==
    /\ At(t, "executeCommand", "dispatch")
    /\ Top(t).expandedCommand = <<"cd">>
    /\ \E target \in {CdTarget(Top(t).expandedArgs, env)} :
       \E newDir \in {CdNewDir(target, env, cwd, previousDir)} :
       \E stat \in {FsStat(fs, newDir)} :
          Await(t, [Top(t) EXCEPT !.pc = "cdStat",
                                  !.cd = [target |-> target, newDir |-> newDir,
                                          stat |-> stat]])
    /\ UNCHANGED <<shell, script, checks, calls, lastPipeline, lastCall>>

\* handleCd: after `await this.fs.stat(newDir)`
CommandCdDone(t) ==
    /\ At(t, "executeCommand", "cdStat")
    /\ LET f == Top(t) IN
       IF CdAllowed(f.cd.stat)
       THEN /\ previousDir' = cwd
            /\ cwd' = f.cd.newDir
            /\ Return(t, EmptyResult)
       ELSE /\ UNCHANGED <<cwd, previousDir>>
            /\ Return(t, Result(<<>>,
                                <<"cd: ">> \o f.cd.target
                                    \o (IF f.cd.stat.ok THEN <<": Not a directory", NL>>
                                        ELSE <<": No such file or directory", NL>>),
                                1))
    /\ UNCHANGED <<fs, env, functions, localScopes, callDepth, commandCount, limits,
                   script, checks, calls, lastPipeline, lastCall>>

\* an atom of digits, and the number it is the decimal form of
IsNumeral(a) == \E n \in 0..MaxNumeral : ToString(n) = a

NumeralValue(a) == CHOOSE n \in 0..MaxNumeral : ToString(n) = a

\* parseInt(arg, 10): an optional sign and the digits that follow it
ParseInt(arg) ==
    IF Len(arg) >= 2 /\ arg[1] = "-" /\ IsNumeral(arg[2])
    THEN [nan |-> FALSE, value |-> 0 - NumeralValue(arg[2])]
    ELSE IF Len(arg) >= 1 /\ IsNumeral(arg[1])
    THEN [nan |-> FALSE, value |-> NumeralValue(arg[1])]
    ELSE [nan |-> TRUE, value |-> 0]

\* executeCommand, the builtin `exit`:
\* `const code = expandedArgs[0] ? parseInt(expandedArgs[0], 10) : 0` and
\* `exitCode: Number.isNaN(code) ? 1 : code`
ExitCode(args) ==
    IF args = <<>> \/ args[1] = <<>> THEN 0
    ELSE IF ParseInt(args[1]).nan THEN 1 ELSE ParseInt(args[1]).value

\* executeCommand: the builtin `exit`
CommandExit(t) ==
    /\ At(t, "executeCommand", "dispatch")
    /\ Top(t).expandedCommand = <<"exit">>
    /\ Return(t, Result(<<>>, <<>>, ExitCode(Top(t).expandedArgs)))
    /\ UNCHANGED <<shell, script, checks, calls, lastPipeline, lastCall>>

\* the names left alone
HandleUnsetNone(args, e) == e

\* BashEnv.handleUnset: `for (const arg of args) delete this.env[arg]`
HandleUnset(args, e) ==
    [n \in DOMAIN e \ {args[i] : i \in 1..Len(args)} |-> e[n]]

\* executeCommand: the builtin `unset`
CommandUnset(t) ==
    /\ At(t, "executeCommand", "dispatch")
    /\ Top(t).expandedCommand = <<"unset">>
    /\ env' = HandleUnset(Top(t).expandedArgs, env)
    /\ Return(t, EmptyResult)
    /\ UNCHANGED <<fs, functions, localScopes, callDepth, commandCount, limits, cwd, previousDir,
                   script, checks, calls, lastPipeline, lastCall>>

\* the commands executeCommand handles before it looks for a function (`export` is on
\* no line of the model)
Builtin(name, args) ==
    name \in {<<"cd">>, <<"unset">>, <<"exit">>, <<"local">>} \/ IsAssignment(name, args)

\* executeCommand: the call of a user-defined function, up to `await this.exec(funcBody)`
CommandFunction(t) ==
    /\ At(t, "executeCommand", "dispatch")
    /\ ~Builtin(Top(t).expandedCommand, Top(t).expandedArgs)
    /\ IsFunction(Top(t).expandedCommand, functions)
    /\ LET f == Top(t)
           name == f.expandedCommand
       IN IF DepthExceeded(callDepth + 1, limits.maxCallDepth)
          THEN /\ Return(t, Result(<<>>, RecursionMessage(name, limits.maxCallDepth), 1))
               /\ UNCHANGED <<callDepth, localScopes, env, calls>>
          ELSE /\ callDepth' = callDepth + 1
               /\ localScopes' = Append(localScopes, <<>>)
               /\ env' = BindPositional(env, f.expandedArgs)
               /\ calls' = [calls EXCEPT ![t] =
                               Append(@, [name |-> name, entryEnv |-> env, locals |-> <<>>])]
               /\ Invoke(t, [f EXCEPT !.pc = "functionDone"], ExecFrame(functions[name]))
    /\ UNCHANGED <<fs, functions, commandCount, limits, cwd, previousDir, script, checks, lastPipeline, lastCall>>

\* executeCommand: after `await this.exec(funcBody)`
CommandFunctionDone(t) ==
    /\ At(t, "executeCommand", "functionDone")
    /\ ret[t] # <<>>
    /\ LET f == Top(t)
           popped == PopScope(env, localScopes)
           after == ClearPositional(popped.env, f.expandedArgs)
       IN /\ callDepth' = callDepth - 1
          /\ localScopes' = popped.localScopes
          /\ env' = after
          /\ calls' = [calls EXCEPT ![t] = SubSeq(@, 1, Len(@) - 1)]
          /\ lastCall' = [call |-> calls[t][Len(calls[t])], args |-> f.expandedArgs,
                          env |-> after, result |-> ret[t][1], depth |-> callDepth]
          /\ Return(t, ret[t][1])
    /\ UNCHANGED <<fs, functions, commandCount, limits, cwd, previousDir, script, checks, lastPipeline>>

\* the error counted as a success
CaughtAsSuccess(command, message) == Result(<<>>, command \o <<": ">> \o message \o <<NL>>, 0)

\* executeCommand: the catch around `await cmd.execute(...)`
Caught(command, message) == Result(<<>>, command \o <<": ">> \o message \o <<NL>>, 1)

\* the unknown command taken for a failed one
NotFoundAsFailure(name) ==
    Result(<<>>, <<"bash: ">> \o name \o <<": command not found", NL>>, 1)

\* executeCommand: `if (!cmd) return {...}`
NotFound(name) ==
    Result(<<>>, <<"bash: ">> \o name \o <<": command not found", NL>>, 127)

\* executeCommand: the lookup of a registered command and `await cmd.execute(...)`
CommandExecute(t) ==
    /\ At(t, "executeCommand", "dispatch")
    /\ ~Builtin(Top(t).expandedCommand, Top(t).expandedArgs)
    /\ ~IsFunction(Top(t).expandedCommand, functions)
    /\ LET f == Top(t)
           commandName == CommandName(f.expandedCommand)
       IN IF commandName \notin Registered
          THEN Return(t, NotFound(f.expandedCommand))
          ELSE Await(t, [f EXCEPT
                   !.result = IF commandName \in Throwing
                              THEN Caught(f.command, ThrownMessage)
                              ELSE Execute(commandName, f.expandedArgs, f.stdin, fs),
                   !.pc = "redirect"])
    /\ UNCHANGED <<shell, script, checks, calls, lastPipeline, lastCall>>

\* executeCommand: `result = await this.applyRedirections(result, redirections)`
CommandRedirect(t) ==
    /\ At(t, "executeCommand", "redirect")
    /\ LET f == Top(t)
           applied == ApplyRedirections(f.result, f.redirections, fs)
       IN /\ fs' = applied.data
          /\ IF applied.ok
             THEN Return(t, applied.result) /\ UNCHANGED calls
             ELSE Throw(t, applied.error) /\ calls' = [calls EXCEPT ![t] = <<>>]
    /\ UNCHANGED <<env, functions, localScopes, callDepth, commandCount, limits, cwd, previousDir, script, checks,
                   lastPipeline, lastCall>>

----------------------------------------------------------------------------
(* executeIfStatement *)

Accumulate(f, result) ==
    [f EXCEPT !.stdout = @ \o result.stdout, !.stderr = @ \o result.stderr,
              !.exitCode = result.exitCode]

\* executeIfStatement: the head of the loop over the branches
IfBranch(t) ==
    /\ At(t, "executeIfStatement", "branch")
    /\ LET f == Top(t) IN
       IF f.b > Len(f.branches)
       THEN Return(t, Result(f.stdout, f.stderr, f.exitCode))
       ELSE IF f.branches[f.b].condition = NullCondition
       THEN Invoke(t, [f EXCEPT !.pc = "bodyDone"], ExecFrame(f.branches[f.b].body))
       ELSE Invoke(t, [f EXCEPT !.pc = "conditionDone"],
                   ExecFrame(f.branches[f.b].condition))
    /\ UNCHANGED <<shell, script, checks, calls, lastPipeline, lastCall>>

\* the body runs when the condition fails
BranchTakenOnFailure(exitCode) == exitCode # 0

\* `if (condResult.exitCode === 0)`
BranchTaken(exitCode) == exitCode = 0

\* executeIfStatement: after `await this.exec(branch.condition)`
IfConditionDone(t) ==
    /\ At(t, "executeIfStatement", "conditionDone")
    /\ ret[t] # <<>>
    /\ LET f == Top(t)
           seen == [line |-> f.branches[f.b].condition, result |-> ret[t][1]]
       IN
       IF BranchTaken(ret[t][1].exitCode)
       THEN Invoke(t, [f EXCEPT !.pc = "bodyDone", !.trace = Append(@, seen)],
                   ExecFrame(f.branches[f.b].body))
       ELSE Goto(t, [f EXCEPT !.b = @ + 1, !.pc = "branch", !.trace = Append(@, seen)])
    /\ UNCHANGED <<shell, script, checks, calls, lastPipeline, lastCall>>

\* executeIfStatement: after `await this.exec(branch.body)`, the break and the return
IfBodyDone(t) ==
    /\ At(t, "executeIfStatement", "bodyDone")
    /\ ret[t] # <<>>
    /\ LET f == Accumulate(Top(t), ret[t][1])
       IN Return(t, Result(f.stdout, f.stderr, f.exitCode))
    /\ UNCHANGED <<shell, script, checks, calls, lastPipeline, lastCall>>

----------------------------------------------------------------------------
(* Loops *)

\* the cap left out
LoopCapNever(iterations, max) == FALSE

\* the cap one iteration late
LoopCapLate(iterations, max) == iterations > max

\* `if (iterations++ >= this.maxLoopIterations)`
LoopCapReached(iterations, max) == iterations >= max

LoopMessage(kind, max) ==
    <<"bash: ", kind, " loop: too many iterations (", ToString(max),
      "). Increase with maxLoopIterations option.", NL>>

CapResult(f, kind, max) == Result(f.stdout, f.stderr \o LoopMessage(kind, max), 1)

\* executeForLoopBody: the head of `for (const item of items)` and the code after it
ForItem(t) ==
    /\ At(t, "executeForLoopBody", "loop")
    /\ LET f == Top(t) IN
       IF f.item > Len(f.items)
       THEN /\ env' = EnvDelete(env, f.varName)
            /\ Return(t, Result(f.stdout, f.stderr, f.exitCode))
       ELSE IF LoopCapReached(f.iterations, limits.maxLoopIterations)
       THEN /\ UNCHANGED env
            /\ Return(t, CapResult(f, "for", limits.maxLoopIterations))
       ELSE /\ env' = EnvSet(env, f.varName, f.items[f.item])
            /\ Invoke(t, [f EXCEPT !.iterations = @ + 1, !.pc = "bodyDone",
                                   !.bound = Append(@, env'[f.varName])],
                      ExecFrame(f.body))
    /\ UNCHANGED <<fs, functions, localScopes, callDepth, commandCount, limits, cwd, previousDir, script, checks,
                   calls, lastPipeline, lastCall>>

\* executeForLoopBody: after `await this.exec(body)`
ForBodyDone(t) ==
    /\ At(t, "executeForLoopBody", "bodyDone")
    /\ ret[t] # <<>>
    /\ Goto(t, [Accumulate(Top(t), ret[t][1]) EXCEPT
                   !.item = @ + 1, !.pc = "loop",
                   !.trace = Append(@, Event("body", ret[t][1]))])
    /\ UNCHANGED <<shell, script, checks, calls, lastPipeline, lastCall>>

\* executeWhileLoopBody: the head of `while (true)`
WhileIteration(t) ==
    /\ At(t, "executeWhileLoopBody", "loop")
    /\ LET f == Top(t) IN
       IF LoopCapReached(f.iterations, limits.maxLoopIterations)
       THEN Return(t, CapResult(f, "while", limits.maxLoopIterations))
       ELSE Invoke(t, [f EXCEPT !.iterations = @ + 1, !.pc = "conditionDone"],
                   ExecFrame(f.condition))
    /\ UNCHANGED <<shell, script, checks, calls, lastPipeline, lastCall>>

\* the loop ends when the condition succeeds
WhileEndsOnSuccess(exitCode) == exitCode = 0

\* executeWhileLoopBody: `if (condResult.exitCode !== 0) break`
WhileEnds(exitCode) == exitCode # 0

\* executeWhileLoopBody: after `await this.exec(condition)`
WhileConditionDone(t) ==
    /\ At(t, "executeWhileLoopBody", "conditionDone")
    /\ ret[t] # <<>>
    /\ LET f == Top(t) IN
       IF WhileEnds(ret[t][1].exitCode)
       THEN Return(t, Result(f.stdout, f.stderr, f.exitCode))
       ELSE Invoke(t, [f EXCEPT !.pc = "bodyDone",
                                !.trace = Append(@, Event("condition", ret[t][1]))],
                   ExecFrame(f.body))
    /\ UNCHANGED <<shell, script, checks, calls, lastPipeline, lastCall>>

\* executeWhileLoopBody: after `await this.exec(body)`
WhileBodyDone(t) ==
    /\ At(t, "executeWhileLoopBody", "bodyDone")
    /\ ret[t] # <<>>
    /\ Goto(t, [Accumulate(Top(t), ret[t][1]) EXCEPT
                   !.pc = "loop", !.trace = Append(@, Event("body", ret[t][1]))])
    /\ UNCHANGED <<shell, script, checks, calls, lastPipeline, lastCall>>

\* executeUntilLoopBody: the head of `while (true)`
UntilIteration(t) ==
    /\ At(t, "executeUntilLoopBody", "loop")
    /\ LET f == Top(t) IN
       IF LoopCapReached(f.iterations, limits.maxLoopIterations)
       THEN Return(t, CapResult(f, "until", limits.maxLoopIterations))
       ELSE Invoke(t, [f EXCEPT !.iterations = @ + 1, !.pc = "conditionDone"],
                   ExecFrame(f.condition))
    /\ UNCHANGED <<shell, script, checks, calls, lastPipeline, lastCall>>

\* executeUntilLoopBody: `if (condResult.exitCode === 0) break`
UntilEnds(exitCode) == exitCode = 0

\* executeUntilLoopBody: after `await this.exec(condition)`
UntilConditionDone(t) ==
    /\ At(t, "executeUntilLoopBody", "conditionDone")
    /\ ret[t] # <<>>
    /\ LET f == Top(t) IN
       IF UntilEnds(ret[t][1].exitCode)
       THEN Return(t, Result(f.stdout, f.stderr, f.exitCode))
       ELSE Invoke(t, [f EXCEPT !.pc = "bodyDone",
                                !.trace = Append(@, Event("condition", ret[t][1]))],
                   ExecFrame(f.body))
    /\ UNCHANGED <<shell, script, checks, calls, lastPipeline, lastCall>>

\* executeUntilLoopBody: after `await this.exec(body)`
UntilBodyDone(t) ==
    /\ At(t, "executeUntilLoopBody", "bodyDone")
    /\ ret[t] # <<>>
    /\ Goto(t, [Accumulate(Top(t), ret[t][1]) EXCEPT
                   !.pc = "loop", !.trace = Append(@, Event("body", ret[t][1]))])
    /\ UNCHANGED <<shell, script, checks, calls, lastPipeline, lastCall>>

----------------------------------------------------------------------------
(* The instances and the lines of the model *)

DEFAULT_MAX_CALL_DEPTH == 100
DEFAULT_MAX_COMMAND_COUNT == 10000
DEFAULT_MAX_LOOP_ITERATIONS == 10000

\* the constructor: `options.maxCallDepth ?? DEFAULT_MAX_CALL_DEPTH`, ...
DefaultLimits ==
    [maxCallDepth |-> DEFAULT_MAX_CALL_DEPTH,
     maxCommandCount |-> DEFAULT_MAX_COMMAND_COUNT,
     maxLoopIterations |-> DEFAULT_MAX_LOOP_ITERATIONS]

\* the constructor, with the `files` option: `HOME: "/"`, `PATH: "/bin:/usr/bin"`
BaseEnv == (<<"HOME">> :> <<"/">>) @@ (<<"PATH">> :> <<"/bin:/usr/bin">>)

\* VirtualFs constructor: the root directory
BaseFs == (Root :> DirEntry)

\* `private previousDir: string = "/home/user"`
DefaultPreviousDir == <<"/", "home", "/", "user">>

Missing == <<"/", "missing">>

\* the numbers of `!` in front of a line, and in front of a later segment
NegationCounts == {0, 1, 2}
LaterNegationCounts == {0, 1}

Letters == <<"a", "b", "c", "d", "e">>

\* `echo <letter>` prints and succeeds, `head /missing` fails with a message
Starters(i) == {Cmd(<<"echo">>, <<<<Letters[i]>>>>), Cmd(<<"head">>, <<Missing>>)}

\* `head` copies its stdin
Filters == {Cmd(<<"head">>, <<>>)}

\* the stages the parser can put at place i: the first has no operator, a `!` stands
\* at the start of a segment only, a filter stands behind a pipe only
StagesAt(i) ==
    IF i = 1
    THEN {Stage("", n, c) : n \in NegationCounts, c \in Starters(i)}
    ELSE {Stage("", 0, c) : c \in Starters(i) \cup Filters}
         \cup {Stage(op[1], op[2], c) :
                   op \in {"&&", "||", ";"} \X LaterNegationCounts, c \in Starters(i)}

RECURSIVE StageLists(_)
StageLists(n) ==
    IF n = 0 THEN {<<>>}
    ELSE {Append(s, st) : s \in StageLists(n - 1), st \in StagesAt(n)}

EnumeratedLines == {Simple(s) : s \in UNION {StageLists(n) : n \in 1..MaxStages}}

Echo(word) == Cmd(<<"echo">>, <<word>>)

Fails == Cmd(<<"head">>, <<Missing>>)

Run(name, args) == Cmd(<<name>>, args)

Local(arg) == Cmd(<<"local">>, <<arg>>)

\* cmd1 ; cmd2 ; ...
Chain(cmds) ==
    Simple([i \in 1..Len(cmds) |-> Stage(IF i = 1 THEN "" ELSE ";", 0, cmds[i])])

One(cmd) == Chain(<<cmd>>)

\* echo x >> / : the append to a directory, which VirtualFs.appendFile refuses
AppendToRoot ==
    CmdTo(<<"echo">>, <<<<"x">>>>, <<[type |-> "stdout", target |-> Root, append |-> TRUE]>>)

\* unset X ; echo $X
\* Y=1
\* f() { unset Y Z; echo $Y; }
\* f
\* unset
\* unset Y > /out ; head /out
Unsets ==
    <<Chain(<<Run("unset", <<<<"X">>>>), Echo(<<"$", "X">>)>>),
      One(Cmd(<<"Y", "=", "1">>, <<>>)),
      Function(<<"f">>, Chain(<<Run("unset", <<<<"Y">>, <<"Z">>>>), Echo(<<"$", "Y">>)>>)),
      One(Run("f", <<>>)),
      One(Run("unset", <<>>)),
      Chain(<<CmdTo(<<"unset">>, <<<<"Y">>>>,
                    <<[type |-> "stdout", target |-> <<"/", "out">>, append |-> FALSE]>>),
              Cmd(<<"head">>, <<<<"/", "out">>>>)>>)>>

\* g() { local X=2; echo $X; head /missing; }  f() { local X=1; g; echo $X; }
\* f a ; echo $X
NestedLocals ==
    <<Function(<<"g">>, Chain(<<Local(<<"X", "=", "2">>), Echo(<<"$", "X">>), Fails>>)),
      Function(<<"f">>, Chain(<<Local(<<"X", "=", "1">>), Run("g", <<>>), Echo(<<"$", "X">>)>>)),
      Chain(<<Run("f", <<<<"a">>>>), Echo(<<"$", "X">>)>>)>>

\* f() { X=5; local X=1; }  f
AssignedBeforeLocal ==
    <<Function(<<"f">>, Chain(<<Cmd(<<"X", "=", "5">>, <<>>), Local(<<"X", "=", "1">>)>>)),
      One(Run("f", <<>>))>>

\* f() { local X=1; X=2; head /missing; }  f
AssignedAfterLocal ==
    <<Function(<<"f">>, Chain(<<Local(<<"X", "=", "1">>), Cmd(<<"X", "=", "2">>, <<>>), Fails>>)),
      One(Run("f", <<>>))>>

\* f() { local X=1; echo x >> /; }  f  echo a
ThrowingBody ==
    <<Function(<<"f">>, Chain(<<Local(<<"X", "=", "1">>), AppendToRoot>>)),
      One(Run("f", <<>>)),
      One(Echo(<<"a">>))>>

\* f() { local X=1; echo x >> /; }  f  local Y=1
LocalAfterThrow == Append(SubSeq(ThrowingBody, 1, 2), One(Local(<<"Y", "=", "1">>)))

\* an argument in single quotes: the parser hands it on as it is, flagged as quoted
Quoted(command, args, quoted) ==
    [command |-> command, args |-> args,
     quotedArgs |-> [i \in 1..Len(args) |-> i \in quoted], redirections |-> <<>>]

\* echo '$X' $X ${X} ${X:-d} ${X:-} '${X:-d}' a${X:-d}b
\* echo $Y${Y}${Y:-d}
Expansions ==
    <<One(Quoted(<<"echo">>,
                 <<<<"$", "X">>, <<"$", "X">>, <<"$", "{", "X", "}">>,
                   <<"$", "{", "X", ":", "-", "d", "}">>, <<"$", "{", "X", ":", "-", "}">>,
                   <<"$", "{", "X", ":", "-", "d", "}">>,
                   <<"a", "$", "{", "X", ":", "-", "d", "}", "b">>>>,
                 {1, 6})),
      One(Echo(<<"$", "Y", "$", "{", "Y", "}", "$", "{", "Y", ":", "-", "d", "}">>))>>

\* X is not set, is set to a text, is set to the empty string
ExpansionEnvs == {BaseEnv, EnvSet(BaseEnv, <<"X">>, <<"outer">>), EnvSet(BaseEnv, <<"X">>, <<>>)}

\* echo a | head /missing && echo b | head
StaleStdin ==
    <<Simple(<<Stage("", 0, Echo(<<"a">>)), Stage("", 0, Fails),
               Stage("&&", 0, Echo(<<"b">>)), Stage("", 0, Cmd(<<"head">>, <<>>))>>)>>

\* boom && echo a || echo b   ! boom && echo a   boom | head ; echo c
\* /bin/boom 2> /dev/null || echo d
CommandThrows ==
    <<Simple(<<Stage("", 0, Run("boom", <<>>)), Stage("&&", 0, Echo(<<"a">>)),
               Stage("||", 0, Echo(<<"b">>))>>),
      Simple(<<Stage("", 1, Run("boom", <<>>)), Stage("&&", 0, Echo(<<"a">>))>>),
      Simple(<<Stage("", 0, Run("boom", <<>>)), Stage("", 0, Cmd(<<"head">>, <<>>)),
               Stage(";", 0, Echo(<<"c">>))>>),
      Simple(<<Stage("", 0, CmdTo(<<"/", "bin", "/", "boom">>, <<>>,
                                  <<[type |-> "stderr", target |-> DevNull,
                                     append |-> FALSE]>>)),
               Stage("||", 0, Echo(<<"d">>))>>)>>

\* exit   exit 42   exit 256   exit -1   exit abc   ! exit 256   exit 1 || echo a
ExitLines ==
    <<One(Run("exit", <<>>)), One(Run("exit", <<<<"42">>>>)),
      One(Run("exit", <<<<"256">>>>)), One(Run("exit", <<<<"-", "1">>>>)),
      One(Run("exit", <<<<"abc">>>>)),
      Simple(<<Stage("", 1, Run("exit", <<<<"256">>>>))>>),
      Simple(<<Stage("", 0, Run("exit", <<<<"1">>>>)), Stage("||", 0, Echo(<<"a">>))>>)>>

\* exit 1 ; echo a
\* head /missing || exit 1 ; echo a
\* exit 0 && echo a
AfterExit ==
    <<Chain(<<Run("exit", <<<<"1">>>>), Echo(<<"a">>)>>),
      Simple(<<Stage("", 0, Fails), Stage("||", 0, Run("exit", <<<<"1">>>>)),
               Stage(";", 0, Echo(<<"a">>))>>),
      Simple(<<Stage("", 0, Run("exit", <<<<"0">>>>)), Stage("&&", 0, Echo(<<"a">>))>>)>>

\* g() { echo $1 $2; }
\* f() { g x; echo $1 $#; }
\* f a b ; echo $1
Positionals ==
    <<Function(<<"g">>, One(Cmd(<<"echo">>, <<<<"$", "1">>, <<"$", "2">>>>))),
      Function(<<"f">>, Chain(<<Run("g", <<<<"x">>>>),
                                Cmd(<<"echo">>, <<<<"$", "1">>, <<"$", "#">>>>)>>)),
      Chain(<<Run("f", <<<<"a">>, <<"b">>>>), Echo(<<"$", "1">>)>>)>>

\* f() { echo a; }
\* f > /out ; head /out
\* nope 2> /dev/null
\* cd /missing 2> /dev/null
\* echo a > /out 2> /dev/null
RedirectedDispatch ==
    <<Function(<<"f">>, One(Echo(<<"a">>))),
      Chain(<<CmdTo(<<"f">>, <<>>,
                    <<[type |-> "stdout", target |-> <<"/", "out">>, append |-> FALSE]>>),
              Cmd(<<"head">>, <<<<"/", "out">>>>)>>),
      One(CmdTo(<<"nope">>, <<>>,
                <<[type |-> "stderr", target |-> DevNull, append |-> FALSE]>>)),
      One(CmdTo(<<"cd">>, <<Missing>>,
                <<[type |-> "stderr", target |-> DevNull, append |-> FALSE]>>)),
      One(CmdTo(<<"echo">>, <<<<"a">>>>,
                <<[type |-> "stdout", target |-> <<"/", "out">>, append |-> FALSE],
                  [type |-> "stderr", target |-> DevNull, append |-> FALSE]>>))>>

\* g() { local X=4; }
\* f() { local X=1; local X=2; X=3; g; echo $X; }
\* f ; echo $X
TwiceLocal ==
    <<Function(<<"g">>, One(Local(<<"X", "=", "4">>))),
      Function(<<"f">>, Chain(<<Local(<<"X", "=", "1">>), Local(<<"X", "=", "2">>),
                                Cmd(<<"X", "=", "3">>, <<>>), Run("g", <<>>),
                                Echo(<<"$", "X">>)>>)),
      Chain(<<Run("f", <<>>), Echo(<<"$", "X">>)>>)>>

StdinFrom(target) == <<[type |-> "stdin", target |-> target, append |-> FALSE]>>

\* nope   nope a > /out   /bin/nope   $X   1X=5   nope < /missing   ! nope && echo a
UnknownCommands ==
    <<One(Run("nope", <<>>)),
      One(CmdTo(<<"nope">>, <<<<"a">>>>,
                <<[type |-> "stdout", target |-> <<"/", "out">>, append |-> FALSE]>>)),
      One(Cmd(<<"/", "bin", "/", "nope">>, <<>>)),
      One(Cmd(<<"$", "X">>, <<>>)),
      One(Cmd(<<"1X", "=", "5">>, <<>>)),
      One(CmdTo(<<"nope">>, <<>>, StdinFrom(Missing))),
      Simple(<<Stage("", 1, Run("nope", <<>>)), Stage("&&", 0, Echo(<<"a">>))>>)>>

StdoutTo(target, append) == <<[type |-> "stdout", target |-> target, append |-> append]>>

Log == <<"/", "log">>

Out == <<"/", "out">>

\* echo a >> /log   echo b >> /log   echo c > /out   head /log > /out
\* f() { echo d; }   f > /out   f >> /log
Redirects ==
    <<One(CmdTo(<<"echo">>, <<<<"a">>>>, StdoutTo(Log, TRUE))),
      One(CmdTo(<<"echo">>, <<<<"b">>>>, StdoutTo(Log, TRUE))),
      One(CmdTo(<<"echo">>, <<<<"c">>>>, StdoutTo(Out, FALSE))),
      One(CmdTo(<<"head">>, <<Log>>, StdoutTo(Out, FALSE))),
      Function(<<"f">>, One(Echo(<<"d">>))),
      One(CmdTo(<<"f">>, <<>>, StdoutTo(Out, FALSE))),
      One(CmdTo(<<"f">>, <<>>, StdoutTo(Log, TRUE)))>>

\* echo a > /out ; echo b > /out/g
UnderFile ==
    <<Chain(<<CmdTo(<<"echo">>, <<<<"a">>>>, StdoutTo(Out, FALSE)),
              CmdTo(<<"echo">>, <<<<"b">>>>, StdoutTo(Out \o <<"/", "g">>, FALSE))>>)>>

\* 2>&1
Merge == <<[type |-> "stderr-to-stdout", target |-> <<>>, append |-> FALSE]>>

\* head /missing > /out 2>&1 ; head /out
\* echo a > /out 2>&1 ; head /out
\* head /missing 2>&1 > /out ; head /out
\* head /missing 2>&1
MergedRedirects ==
    <<Chain(<<CmdTo(<<"head">>, <<Missing>>, StdoutTo(Out, FALSE) \o Merge),
              Run("head", <<Out>>)>>),
      Chain(<<CmdTo(<<"echo">>, <<<<"a">>>>, StdoutTo(Out, FALSE) \o Merge),
              Run("head", <<Out>>)>>),
      Chain(<<CmdTo(<<"head">>, <<Missing>>, Merge \o StdoutTo(Out, FALSE)),
              Run("head", <<Out>>)>>),
      One(CmdTo(<<"head">>, <<Missing>>, Merge))>>

\* echo a > /out ; head /out
\* echo b >> /out && head /out | head
\* echo c > /out ; echo d >> /out ; head /out ; echo e > /out ; head /out
\* f() { echo g > /out; }   f ; head /out
\* if echo h > /out; then head /out; fi
VisibleWrites ==
    <<Chain(<<CmdTo(<<"echo">>, <<<<"a">>>>, StdoutTo(Out, FALSE)), Run("head", <<Out>>)>>),
      Simple(<<Stage("", 0, CmdTo(<<"echo">>, <<<<"b">>>>, StdoutTo(Out, TRUE))),
               Stage("&&", 0, Run("head", <<Out>>)), Stage("", 0, Run("head", <<>>))>>),
      Chain(<<CmdTo(<<"echo">>, <<<<"c">>>>, StdoutTo(Out, FALSE)),
              CmdTo(<<"echo">>, <<<<"d">>>>, StdoutTo(Out, TRUE)), Run("head", <<Out>>),
              CmdTo(<<"echo">>, <<<<"e">>>>, StdoutTo(Out, FALSE)), Run("head", <<Out>>)>>),
      Function(<<"f">>, One(CmdTo(<<"echo">>, <<<<"g">>>>, StdoutTo(Out, FALSE)))),
      Chain(<<Run("f", <<>>), Run("head", <<Out>>)>>),
      If(<<Branch(One(CmdTo(<<"echo">>, <<<<"h">>>>, StdoutTo(Out, FALSE))),
                  One(Run("head", <<Out>>)))>>)>>

\* X=echo
\* while $X a; do X=nope; head /missing; done
\* until $X a; do X=echo; done
\* while head /missing; do echo b; done
LoopsEnd ==
    <<One(Cmd(<<"X", "=", "echo">>, <<>>)),
      While(One(Cmd(<<"$", "X">>, <<<<"a">>>>)),
            Chain(<<Cmd(<<"X", "=", "nope">>, <<>>), Fails>>)),
      Until(One(Cmd(<<"$", "X">>, <<<<"a">>>>)), One(Cmd(<<"X", "=", "echo">>, <<>>))),
      While(One(Fails), One(Echo(<<"b">>)))>>

Dir == <<"/", "d">>

SubDir == <<"/", "d", "/", "e">>

File == <<"/", "f">>

\* the `files` option {"/d/e/x": "1", "/f": "2"}
CdFs ==
    FsWriteFileSync(FsWriteFileSync(BaseFs, SubDir \o <<"/", "x">>, <<"1">>), File, <<"2">>)

Cd(args) == One(Run("cd", args))

\* cd -   cd /d   cd e   cd ..   cd -   cd /f   cd /missing   cd x   cd   cd ~   cd d
CdLines ==
    <<Cd(<<<<"-">>>>), Cd(<<Dir>>), Cd(<<<<"e">>>>), Cd(<<<<".", ".">>>>), Cd(<<<<"-">>>>),
      Cd(<<File>>), Cd(<<Missing>>), Cd(<<<<"x">>>>), Cd(<<>>), Cd(<<<<"~">>>>),
      Cd(<<<<"d">>>>)>>

\* the settings of HOME: the root, a directory, a file, nothing there
Homes == {Root, Dir, File, Missing}

\* local X=1, outside every function
LocalOutside == <<One(Local(<<"X", "=", "1">>))>>

\* f() { f; }  f
SelfCall == <<Function(<<"f">>, One(Run("f", <<>>))), One(Run("f", <<>>))>>

\* f() { echo a; f; }  f
SelfCallLast ==
    <<Function(<<"f">>, Chain(<<Echo(<<"a">>), Run("f", <<>>)>>)), One(Run("f", <<>>))>>

\* f() { f; echo a; }  f
SelfCallFirst ==
    <<Function(<<"f">>, Chain(<<Run("f", <<>>), Echo(<<"a">>)>>)), One(Run("f", <<>>))>>

\* f() { ! f; }  f
SelfCallNegated ==
    <<Function(<<"f">>, Simple(<<Stage("", 1, Run("f", <<>>))>>)), One(Run("f", <<>>))>>

\* f() { g; }  g() { f; }  f
MutualCalls ==
    <<Function(<<"f">>, One(Run("g", <<>>))), Function(<<"g">>, One(Run("f", <<>>))),
      One(Run("f", <<>>))>>

\* while echo a; do echo b; done
WhileForever == <<While(One(Echo(<<"a">>)), One(Echo(<<"b">>)))>>

\* until head /missing; do echo b; done
UntilForever == <<Until(One(Fails), One(Echo(<<"b">>)))>>

\* for v in a b c; do echo $v; done
ForItems == <<For(<<"v">>, <<<<"a">>, <<"b">>, <<"c">>>>, One(Echo(<<"$", "v">>)))>>

\* for v in a b; do echo $v; done
ForPair == <<For(<<"v">>, <<<<"a">>, <<"b">>>>, One(Echo(<<"$", "v">>)))>>

\* f() { while echo a; do f; done; }  f
WhileInFunction ==
    <<Function(<<"f">>, While(One(Echo(<<"a">>)), One(Run("f", <<>>)))), One(Run("f", <<>>))>>

\* f() { until head /missing; do f; done; }  f
UntilInFunction ==
    <<Function(<<"f">>, Until(One(Fails), One(Run("f", <<>>)))), One(Run("f", <<>>))>>

\* while echo a; do until head /missing; do echo b; done; done
NestedLoops ==
    <<While(One(Echo(<<"a">>)), Until(One(Fails), One(Echo(<<"b">>))))>>

\* if head /missing; then echo a; elif echo b; then echo c; else echo d; fi
\* if head /missing; then echo a; else echo d; fi
\* if head /missing; then echo a; fi
IfLines ==
    <<If(<<Branch(One(Fails), One(Echo(<<"a">>))),
           Branch(One(Echo(<<"b">>)), One(Echo(<<"c">>))),
           Branch(NullCondition, One(Echo(<<"d">>)))>>),
      If(<<Branch(One(Fails), One(Echo(<<"a">>))),
           Branch(NullCondition, One(Echo(<<"d">>)))>>),
      If(<<Branch(One(Fails), One(Echo(<<"a">>)))>>)>>

\* if echo c; then echo a; fi
\* if echo c; echo a; fi
\* if head /missing; then echo a; elif echo c; echo b; fi
\* if echo c; then echo a
\* if echo c; then echo a; fi; fi
\* if echo c; then if echo c; then echo a; fi
\* if head /missing; then echo a; else echo b; fi
IfTexts ==
    LET cond(command) == <<"if", SP>> \o command \o <<";", SP>>
        then(word) == <<"then", SP, "echo", SP, word, ";", SP>>
        echo(word) == <<"echo", SP, word>>
        fails == <<"head", SP, "/", "missing">>
    IN <<IfText(cond(echo("c")) \o then("a") \o <<"fi">>),
         IfText(cond(echo("c")) \o echo("a") \o <<";", SP, "fi">>),
         IfText(cond(fails) \o then("a") \o <<"elif", SP>> \o echo("c") \o <<";", SP>>
                    \o echo("b") \o <<";", SP, "fi">>),
         IfText(cond(echo("c")) \o <<"then", SP>> \o echo("a")),
         IfText(cond(echo("c")) \o then("a") \o <<"fi", ";", SP, "fi">>),
         IfText(cond(echo("c")) \o <<"then", SP>> \o cond(echo("c")) \o then("a") \o <<"fi">>),
         IfText(cond(fails) \o then("a") \o <<"else", SP>> \o echo("b") \o <<";", SP, "fi">>)>>

\* if echo c; then if echo c; then echo a; fi; fi
\* if echo c; then if head /missing; then echo a; elif echo c; then echo b; fi; fi
\* if echo c; then if head /missing; then echo a; else echo b; fi; fi
NestedIfTexts ==
    LET cond(command) == <<"if", SP>> \o command \o <<";", SP>>
        then(word) == <<"then", SP, "echo", SP, word, ";", SP>>
        echo(word) == <<"echo", SP, word>>
        fails == <<"head", SP, "/", "missing">>
    IN <<IfText(cond(echo("c")) \o <<"then", SP>> \o cond(echo("c")) \o then("a")
                    \o <<"fi", ";", SP, "fi">>),
         IfText(cond(echo("c")) \o <<"then", SP>> \o cond(fails) \o then("a")
                    \o <<"elif", SP>> \o echo("c") \o <<";", SP>> \o then("b")
                    \o <<"fi", ";", SP, "fi">>),
         IfText(cond(echo("c")) \o <<"then", SP>> \o cond(fails) \o then("a")
                    \o <<"else", SP>> \o echo("b") \o <<";", SP, "fi", ";", SP, "fi">>)>>

\* f() { local X=1; cd /; echo $X > /out; unset NAME; exit 0; }
\* f
\* NAME=1
\* for v in a; do echo $v; done
\* while echo a; do echo b; done
\* until head /missing; do echo b; done
\* if echo a; then echo b; fi
OverlapFirst ==
    <<Function(<<"f">>, Chain(<<Local(<<"X", "=", "1">>), Cmd(<<"cd">>, <<Root>>),
                                CmdTo(<<"echo">>, <<<<"$", "X">>>>, StdoutTo(Out, FALSE)),
                                Run("unset", <<<<"NAME">>>>), Run("exit", <<<<"0">>>>)>>)),
      One(Run("f", <<>>)),
      One(Cmd(<<"NAME", "=", "1">>, <<>>)),
      For(<<"v">>, <<<<"a">>>>, One(Echo(<<"$", "v">>))),
      While(One(Echo(<<"a">>)), One(Echo(<<"b">>))),
      Until(One(Fails), One(Echo(<<"b">>))),
      If(<<Branch(One(Echo(<<"a">>)), One(Echo(<<"b">>)))>>)>>

\* g() { local Y=2; local X=3; echo $X >> /log; }
\* g
OverlapSecond ==
    <<Function(<<"g">>, Chain(<<Local(<<"Y", "=", "2">>), Local(<<"X", "=", "3">>),
                                CmdTo(<<"echo">>, <<<<"$", "X">>>>, StdoutTo(Log, TRUE))>>)),
      One(Run("g", <<>>))>>

\* the limits of the instance of the two callers: one iteration for each loop
OverlapLimits == [DefaultLimits EXCEPT !.maxLoopIterations = 1]

Scenario(lines, e, data, lim) == [script |-> lines, env |-> e, fs |-> data, limits |-> lim]

MaxLimit == 2
MaxCommandCount == 9

\* the limits of the options: each finite, some of them below what a line needs
LimitSettings ==
    [maxCallDepth : 0..MaxLimit, maxCommandCount : {MaxLimit, MaxCommandCount},
     maxLoopIterations : 0..MaxLimit]

Outer == EnvSet(BaseEnv, <<"X">>, <<"outer">>)

LocalScripts ==
    {NestedLocals, AssignedBeforeLocal, AssignedAfterLocal, ThrowingBody, LocalOutside,
     StaleStdin, CommandThrows, ExitLines, Redirects, UnknownCommands,
     VisibleWrites, LocalAfterThrow, Unsets, AfterExit,
     Positionals, RedirectedDispatch, TwiceLocal, MergedRedirects, UnderFile}

LimitScripts ==
    {SelfCall, SelfCallLast, SelfCallFirst, SelfCallNegated, MutualCalls, WhileForever,
     UntilForever,
     ForItems, WhileInFunction, UntilInFunction, NestedLoops, IfLines, LoopsEnd, ForPair}

\* the instances with functions, locals, loops and small limits
CuratedScenarios ==
    {Scenario(lines, e, BaseFs, DefaultLimits) : lines \in LocalScripts, e \in {BaseEnv, Outer}}
    \cup {Scenario(lines, BaseEnv, BaseFs, lim) : lines \in LimitScripts, lim \in LimitSettings}
    \cup {Scenario(CdLines, EnvSet(BaseEnv, <<"HOME">>, home), CdFs, DefaultLimits) :
             home \in Homes}
    \cup {Scenario(Expansions, e, BaseFs, DefaultLimits) : e \in ExpansionEnvs}

\* the instances with one line of up to MaxStages stages
EnumeratedScenarios ==
    {Scenario(<<line>>, BaseEnv, BaseFs, DefaultLimits) : line \in EnumeratedLines}

\* the instance whose if statements go through parseIfStatement
TextScenarios ==
    {Scenario(lines, BaseEnv, BaseFs, DefaultLimits) : lines \in {IfTexts, NestedIfTexts}}

Scenarios == EnumeratedScenarios \cup CuratedScenarios \cup TextScenarios

\* a new instance, and the lines the two callers will hand to exec
StartBoth(sc, other) ==
    /\ script = [t \in Tasks |-> IF t = 1 THEN sc.script ELSE other]
    /\ env = sc.env
    /\ fs = sc.fs
    /\ limits = sc.limits
    /\ functions = <<>>
    /\ localScopes = <<>>
    /\ callDepth = 0
    /\ commandCount = 0
    /\ results = [t \in Tasks |-> <<>>]
    /\ stack = [t \in Tasks |-> <<>>]
    /\ ret = [t \in Tasks |-> <<>>]
    /\ calls = [t \in Tasks |-> <<>>]
    /\ running = 0
    /\ lastPipeline = NoPipeline
    /\ cwd = Root
    /\ previousDir = DefaultPreviousDir
    /\ checks = [t \in Tasks |-> NoChecks]
    /\ lastCall = [call |-> [name |-> <<>>, entryEnv |-> <<>>, locals |-> <<>>],
                   args |-> <<>>, env |-> <<>>, result |-> EmptyResult, depth |-> 0]

\* a new instance with one caller
Start(sc) == StartBoth(sc, <<>>)

Init == \E sc \in Scenarios : Start(sc)

InitLive == \E sc \in CuratedScenarios : Start(sc)

Next ==
    \E t \in Tasks :
        \/ Call(t)
        \/ ExecEntry(t)
        \/ ExecPipelines(t)
        \/ ExecPipelineDone(t)
        \/ PipelineStage(t)
        \/ PipelineStageDone(t)
        \/ CommandStart(t)
        \/ CommandLocal(t)
        \/ CommandAssign(t)
        \/ CommandUnset(t)
        \/ CommandExit(t)
        \/ CommandCd(t)
        \/ CommandCdDone(t)
        \/ CommandFunction(t)
        \/ CommandFunctionDone(t)
        \/ CommandExecute(t)
        \/ CommandRedirect(t)
        \/ IfBranch(t)
        \/ IfConditionDone(t)
        \/ IfBodyDone(t)
        \/ ForItem(t)
        \/ ForBodyDone(t)
        \/ WhileIteration(t)
        \/ WhileConditionDone(t)
        \/ WhileBodyDone(t)
        \/ UntilIteration(t)
        \/ UntilConditionDone(t)
        \/ UntilBodyDone(t)

Spec == Init /\ [][Next]_vars

\* the event loop runs every continuation that is ready
\* two callers whose calls of exec overlap: the second does not wait for the promise
\* of the first
InitOverlap == StartBoth(Scenario(OverlapFirst, Outer, BaseFs, OverlapLimits), OverlapSecond)

SpecOverlap == InitOverlap /\ [][Next]_vars

SpecLive == InitLive /\ [][Next]_vars /\ WF_vars(Next)

----------------------------------------------------------------------------
(* What the stage list of a pipeline says, read off the line alone *)

\* the executePipeline calls in progress and the last one that returned
Observed ==
    {[pipeline |-> lastPipeline.pipeline, initialStdin |-> lastPipeline.initialStdin,
      log |-> lastPipeline.log]}
    \cup UNION {{[pipeline |-> stack[t][d].pipeline,
                   initialStdin |-> stack[t][d].initialStdin, log |-> stack[t][d].log] :
                     d \in {e \in 1..Len(stack[t]) : stack[t][e].fn = "executePipeline"}} :
                 t \in Tasks}

\* the first stage of the pipe-connected run that stage i belongs to
RunHead(commands, i) ==
    CHOOSE j \in 1..i :
        /\ j = 1 \/ commands[j].operator # ""
        /\ \A m \in (j + 1)..i : commands[m].operator = ""

\* stage i is the last stage of its pipe-connected run
Terminal(commands, i) == i = Len(commands) \/ commands[i + 1].operator # ""

Inverted(code, n) == IF n % 2 = 1 THEN (IF code = 0 THEN 1 ELSE 0) ELSE code

\* the negation-adjusted exit code of an executed stage
Adjusted(commands, entry) ==
    IF Terminal(commands, entry.i)
    THEN Inverted(entry.result.exitCode, commands[RunHead(commands, entry.i)].negationCount)
    ELSE entry.result.exitCode

Executed(log) == {log[k].i : k \in 1..Len(log)}

RECURSIVE TerminalStdout(_, _)
TerminalStdout(commands, log) ==
    IF log = <<>> THEN <<>>
    ELSE (IF Terminal(commands, Head(log).i) THEN Head(log).result.stdout ELSE <<>>)
         \o TerminalStdout(commands, Tail(log))

RECURSIVE AllStderr(_)
AllStderr(log) ==
    IF log = <<>> THEN <<>> ELSE Head(log).result.stderr \o AllStderr(Tail(log))

\* task t is at the head of the stage loop and its next step skips the stage
Skips(t) ==
    /\ stack[t] # <<>>
    /\ Top(t).fn = "executePipeline"
    /\ Top(t).pc = "loop"
    /\ Len(stack'[t]) = Len(stack[t])
    /\ stack'[t][Len(stack[t])].i = Top(t).i + 1

\* every executed `&&` stage follows an executed stage of adjusted exit code 0, every
\* executed `||` stage one of adjusted exit code other than 0
Gated ==
    \A o \in Observed : \A k \in 1..Len(o.log) :
        LET operator == o.pipeline.commands[o.log[k].i].operator IN
        /\ operator = "&&" => k > 1 /\ Adjusted(o.pipeline.commands, o.log[k - 1]) = 0
        /\ operator = "||" => k > 1 /\ Adjusted(o.pipeline.commands, o.log[k - 1]) # 0

\* a skipped stage changes neither the filesystem nor the environment nor the exit
\* code the next stages are gated on
SkipChangesNothing ==
    \A t \in Tasks :
        Skips(t) => /\ fs' = fs
                    /\ env' = env
                    /\ stack'[t][Len(stack[t])].lastResult = Top(t).lastResult

\* C1: an `&&` stage executes only if the negation-adjusted exit code of the most
\* recently executed stage is 0, an `||` stage only if it is not 0; a skipped stage
\* changes neither the filesystem nor the environment nor the gating exit code
TheoremC1 == []Gated /\ [][SkipChangesNothing]_vars

\* a line whose `&&` stage ran after a success and whose `||` stage was skipped
WitnessC1 ==
    LET commands == lastPipeline.pipeline.commands
        log == lastPipeline.log
    IN /\ lastPipeline.depth > 0
       /\ \E k \in 2..Len(log) : commands[log[k].i].operator = "&&"
       /\ \E i \in 1..Len(commands) :
             commands[i].operator = "||" /\ i \notin Executed(log)

\* C2: the stdin given to a stage is the stdout of the stage right before it if and
\* only if the stage is pipe-connected to it; the first stage and every stage behind
\* `&&`, `||` or `;` get the stdin of the call
StdinFromPipeOnly ==
    \A o \in Observed : \A k \in 1..Len(o.log) :
        LET i == o.log[k].i IN
        IF o.pipeline.commands[i].operator = "" /\ i > 1
        THEN \E m \in 1..Len(o.log) :
                 o.log[m].i = i - 1 /\ o.log[k].stdin = o.log[m].result.stdout
        ELSE o.log[k].stdin = o.initialStdin

\* C3: of a pipe-connected run only the last stage's stdout is in the stdout of the
\* result, and the stderr of every executed stage is in its stderr, in execution order
TheoremC3 ==
    lastPipeline.depth > 0 =>
        /\ lastPipeline.result.stdout
              = TerminalStdout(lastPipeline.pipeline.commands, lastPipeline.log)
        /\ lastPipeline.result.stderr = AllStderr(lastPipeline.log)

\* echo a | head | head, or any other run of three stages that all print
WitnessC3 ==
    LET commands == lastPipeline.pipeline.commands
        log == lastPipeline.log
    IN /\ lastPipeline.depth > 0
       /\ Len(log) = 3
       /\ \A k \in 1..3 : log[k].result.stdout # <<>>
       /\ commands[2].operator = "" /\ commands[3].operator = ""
       /\ lastPipeline.result.stdout = log[3].result.stdout

Last(seq) == seq[Len(seq)]

\* the top-level exec of task t has just returned the result of a line of stages
Returned(t) ==
    /\ stack[t] = <<>>
    /\ results[t] # <<>>
    /\ Last(results[t]).kind = "resolved"
    /\ script[t][Len(results[t])].kind = "simple"
    /\ lastPipeline.depth = 2
    /\ lastPipeline.pipeline = script[t][Len(results[t])].pipelines[1]

\* C4: the exit code returned for a line is the negation-adjusted exit code of the last
\* stage that executed, and the stdout is the outputs of the executed stages in order
TheoremC4 ==
    \A t \in Tasks :
        Returned(t) =>
            LET value == Last(results[t]).value
                commands == lastPipeline.pipeline.commands
                log == lastPipeline.log
            IN /\ log # <<>>
               /\ value.exitCode = Adjusted(commands, Last(log))
               /\ value.stdout = TerminalStdout(commands, log)

\* a ; b && c with a printing, b failing and c skipped: the code and the message of b
WitnessC4 ==
    /\ Returned(1)
    /\ Len(lastPipeline.pipeline.commands) = 3
    /\ Executed(lastPipeline.log) = {1, 2}
    /\ lastPipeline.pipeline.commands[2].operator = ";"
    /\ lastPipeline.log[1].result.stdout # <<>>
    /\ Last(results[1]).value.exitCode = 1

\* C5: the exit code a pipe-connected run hands on, to the gates and to the caller, is
\* its last stage's exit code when the negation count is even and the inverted one
\* when it is odd; a stage that pipes into another is never inverted
TheoremC5 ==
    \A t \in Tasks : \A d \in 1..Len(stack[t]) :
        LET f == stack[t][d] IN
        (f.fn = "executePipeline" /\ f.pc = "loop" /\ f.log # <<>>) =>
            LET commands == f.pipeline.commands
                entry == Last(f.log)
                n == commands[RunHead(commands, entry.i)].negationCount
            IN IF Terminal(commands, entry.i)
               THEN f.lastResult.exitCode
                       = (IF n % 2 = 0 THEN entry.result.exitCode
                          ELSE IF entry.result.exitCode = 0 THEN 1 ELSE 0)
               ELSE /\ f.lastResult.exitCode = entry.result.exitCode
                    /\ f.stdin = entry.result.stdout

\* `! head /missing | head` has run: the failing stage kept its code, the run hands 1 on
WitnessC5 ==
    \E t \in Tasks :
        /\ stack[t] # <<>>
        /\ Top(t).fn = "executePipeline" /\ Top(t).pc = "loop"
        /\ Len(Top(t).log) = 2
        /\ Top(t).pipeline.commands[1].negationCount = 1
        /\ Top(t).pipeline.commands[2].operator = ""
        /\ Top(t).log[1].result.exitCode = 1
        /\ Top(t).log[2].result.exitCode = 0
        /\ Top(t).lastResult.exitCode = 1

----------------------------------------------------------------------------
(* Function calls: locals, depth, scopes, termination *)

\* the names the call that has just returned declared local
Declared == DOMAIN lastCall.call.locals

Names(text, message) ==
    \E i \in 1..(Len(text) - Len(message) + 1) :
        SubSeq(text, i, i + Len(message) - 1) = message

\* the second line of the script, the call of f, has returned
SelfCallReturned(t) == Len(results[t]) = 2 /\ stack[t] = <<>>

RecursionCut(t) ==
    /\ results[t][2].kind = "resolved"
    /\ results[t][2].value.exitCode = 1
    /\ Names(results[t][2].value.stderr, RecursionMessage(<<"f">>, limits.maxCallDepth))

\* C7 as stated: a function that calls itself unconditionally never has more than
\* maxCallDepth nested executions of its body, and the top-level exec returns exit
\* code 1 with the recursion-depth message in its stderr
SelfCallCut ==
    \A t \in Tasks :
        /\ Len(calls[t]) <= limits.maxCallDepth
        /\ (/\ script[t] \in {SelfCall, SelfCallLast, SelfCallFirst, SelfCallNegated}
            /\ SelfCallReturned(t))
              => RecursionCut(t)

\* C7, amended: a function that calls itself unconditionally never has more than
\* maxCallDepth nested executions of its body; when the self-call is the last stage of
\* the body, without `!`, and the command count of the call stays within
\* maxCommandCount, the top-level exec returns exit code 1 with the recursion-depth
\* message in its stderr
TheoremC7 ==
    \A t \in Tasks :
        /\ Len(calls[t]) <= limits.maxCallDepth
        /\ (/\ script[t] \in {SelfCall, SelfCallLast}
            /\ commandCount <= limits.maxCommandCount
            /\ SelfCallReturned(t))
              => RecursionCut(t)

\* f() { echo a; f; } under maxCallDepth = MaxLimit: the body ran MaxLimit times
WitnessC7 ==
    /\ script[1] = SelfCallLast
    /\ limits.maxCallDepth = MaxLimit
    /\ limits.maxCommandCount = MaxCommandCount
    /\ SelfCallReturned(1)
    /\ RecursionCut(1)
    /\ Len(results[1][2].value.stdout) = 2 * MaxLimit

NoExecActive == \A t \in Tasks : stack[t] = <<>>

ActiveCalls == Len(calls[1]) + Len(calls[2])

\* C8: callDepth is decremented once for every function entry that incremented it, on
\* every exit path of the call, so it is 0 whenever no exec call is active
DepthBalanced ==
    /\ callDepth = ActiveCalls
    /\ NoExecActive => callDepth = 0

\* C9: every scope frame pushed at a function entry is popped once, at that call's
\* exit, last in first out: a name declared local has again the value it had before
\* the declaration once the call has returned, and the scope stack is empty whenever
\* no exec call is active
ScopesBalanced ==
    /\ Len(localScopes) = ActiveCalls
    /\ \A n \in Declared : EnvGet(lastCall.env, n) = lastCall.call.locals[n]
    /\ NoExecActive => localScopes = <<>>

LoopFrames == {"executeForLoopBody", "executeWhileLoopBody", "executeUntilLoopBody"}

\* no loop has started more than maxLoopIterations iterations, no call is nested
\* deeper than maxCallDepth
CutByLimits ==
    \A t \in Tasks :
        /\ Len(calls[t]) <= limits.maxCallDepth
        /\ \A d \in 1..Len(stack[t]) :
              stack[t][d].fn \in LoopFrames
                  => stack[t][d].iterations <= limits.maxLoopIterations

\* C10: for every line and every setting of the three limits a top-level exec call
\* comes to its end: recursion is cut by maxCallDepth and every loop by
\* maxLoopIterations, also when the condition never changes or the loop is in a function
TheoremC10 ==
    /\ []CutByLimits
    /\ \A t \in Tasks : (stack[t] # <<>>) ~> (stack[t] = <<>>)

\* f() { until head /missing; do f; done; } has returned: every loop was cut by the cap
WitnessC10 ==
    /\ script[1] = UntilInFunction
    /\ limits.maxCallDepth = MaxLimit
    /\ limits.maxLoopIterations = MaxLimit
    /\ limits.maxCommandCount = MaxCommandCount
    /\ SelfCallReturned(1)
    /\ results[1][2].kind = "resolved"
    /\ Names(results[1][2].value.stderr, LoopMessage("until", MaxLimit))

----------------------------------------------------------------------------
(* The command count *)

\* C11: whenever the command-count limit is exceeded at any nesting level during a
\* top-level exec call, the result of that call has exit code 1 and its stderr contains
\* the limit-exceeded message: no enclosing if condition, loop condition or function
\* swallows the breach
BreachAborts ==
    \A t \in Tasks :
        (/\ stack[t] = <<>>
         /\ checks[t].breached
         /\ Last(results[t]).kind = "resolved")
            => /\ Last(results[t]).value.exitCode = 1
               /\ Names(Last(results[t]).value.stderr,
                        CommandCountMessage(limits.maxCommandCount))

\* C12: commandCount is reset only at the entry of a top-level exec call, so within one
\* top-level call the number of exec entries that get past the command-count check,
\* the nested ones for bodies and conditions included, never exceeds maxCommandCount
EntriesWithinCount ==
    \A t \in Tasks : checks[t].passed <= limits.maxCommandCount

----------------------------------------------------------------------------
(* Loops and if statements, read off the observed conditions and bodies *)

Bodies(trace) == {k \in 1..Len(trace) : trace[k].kind = "body"}

Conditions(trace) == {k \in 1..Len(trace) : trace[k].kind = "condition"}

\* the body executions a loop invocation has started
BodiesStarted(f) == Cardinality(Bodies(f.trace)) + (IF f.pc = "bodyDone" THEN 1 ELSE 0)

RECURSIVE BodyStdout(_)
BodyStdout(trace) ==
    IF trace = <<>> THEN <<>>
    ELSE (IF Head(trace).kind = "body" THEN Head(trace).result.stdout ELSE <<>>)
         \o BodyStdout(Tail(trace))

RECURSIVE BodyStderr(_)
BodyStderr(trace) ==
    IF trace = <<>> THEN <<>>
    ELSE (IF Head(trace).kind = "body" THEN Head(trace).result.stderr ELSE <<>>)
         \o BodyStderr(Tail(trace))

LoopKind(fn) ==
    IF fn = "executeForLoopBody" THEN "for"
    ELSE IF fn = "executeWhileLoopBody" THEN "while" ELSE "until"

\* every loop invocation has started at most maxLoopIterations executions of its body
BodiesWithinCap ==
    \A t \in Tasks : \A d \in 1..Len(stack[t]) :
        stack[t][d].fn \in LoopFrames
            => BodiesStarted(stack[t][d]) <= limits.maxLoopIterations

\* task t takes a step at the head of a loop that has another iteration to make
AtLoopHead(t) ==
    /\ stack[t] # <<>>
    /\ Top(t).fn \in LoopFrames
    /\ Top(t).pc = "loop"
    /\ Top(t).fn = "executeForLoopBody" => Top(t).item <= Len(Top(t).items)
    /\ stack'[t] # stack[t]

\* a loop that made maxLoopIterations iterations of its own ends alone, with exit code
\* 1 and the output of its bodies followed by the message; a loop that made fewer
\* goes on, whatever the loops around it and in it have made
CapEndsOnlyLoop ==
    \A t \in Tasks :
        AtLoopHead(t) =>
            LET f == Top(t)
                handed == IF Len(stack[t]) = 1 THEN Last(results'[t]).value
                          ELSE ret'[t][1]
            IN IF BodiesStarted(f) = limits.maxLoopIterations
               THEN /\ stack'[t] = SubSeq(stack[t], 1, Len(stack[t]) - 1)
                    /\ handed = Result(BodyStdout(f.trace),
                                       BodyStderr(f.trace)
                                           \o LoopMessage(LoopKind(f.fn),
                                                          limits.maxLoopIterations),
                                       1)
               ELSE Len(stack'[t]) = Len(stack[t]) + 1

\* C13: each loop invocation counts its own iterations from 0 and executes its body at
\* most maxLoopIterations times; the iterations of a nested or sibling loop do not
\* count toward it, and hitting the cap ends only that loop, with exit code 1 and the
\* stdout and stderr of the completed iterations preserved
TheoremC13 == []BodiesWithinCap /\ [][CapEndsOnlyLoop]_vars

\* while echo a; do until head /missing; do echo b; done; done: the inner loop has
\* been cut for the second time, the outer loop goes on with its output
WitnessC13 ==
    /\ script[1] = NestedLoops
    /\ limits.maxLoopIterations = MaxLimit
    /\ stack[1] # <<>>
    /\ Top(1).fn = "executeWhileLoopBody"
    /\ Top(1).pc = "bodyDone"
    /\ Cardinality(Bodies(Top(1).trace)) = MaxLimit - 1
    /\ ret[1] # <<>>
    /\ ret[1][1].exitCode = 1
    /\ Len(ret[1][1].stdout) = 2 * MaxLimit
    /\ Names(ret[1][1].stderr, LoopMessage("until", MaxLimit))

----------------------------------------------------------------------------
(* while and until *)

ConditionLoops == {"executeWhileLoopBody", "executeUntilLoopBody"}

\* the condition sends the loop into its body: exit code 0 for while, any other for until
Enters(fn, exitCode) == IF fn = "executeWhileLoopBody" THEN exitCode = 0 ELSE exitCode # 0

\* the evaluations and the body executions alternate, starting with an evaluation, and
\* every evaluation but the one that ends the loop is followed by one body execution
Alternates(f) ==
    /\ \A k \in 1..Len(f.trace) :
          IF k % 2 = 1
          THEN f.trace[k].kind = "condition" /\ Enters(f.fn, f.trace[k].result.exitCode)
          ELSE f.trace[k].kind = "body"
    /\ Len(f.trace) % 2 = (IF f.pc = "bodyDone" THEN 1 ELSE 0)

\* the exit code of the last body execution, 0 if there was none
LastBodyCode(trace) ==
    IF Bodies(trace) = {} THEN 0
    ELSE trace[CHOOSE k \in Bodies(trace) : \A m \in Bodies(trace) : m <= k].result.exitCode

\* task t returns from a while or until loop
LoopReturns(t) ==
    /\ stack[t] # <<>>
    /\ Top(t).fn \in ConditionLoops
    /\ stack'[t] = SubSeq(stack[t], 1, Len(stack[t]) - 1)

\* the loop ends behind an evaluation that does not send it into the body, with the
\* exit code of its last body execution
EndsByCondition(t) ==
    LET f == Top(t)
        handed == IF Len(stack[t]) = 1 THEN Last(results'[t]).value ELSE ret'[t][1]
    IN /\ f.pc = "conditionDone"
       /\ ~Enters(f.fn, ret[t][1].exitCode)
       /\ handed.exitCode = LastBodyCode(f.trace)

\* the loop ends at the iteration cap, with exit code 1
EndsByCap(t) ==
    LET f == Top(t)
        handed == IF Len(stack[t]) = 1 THEN Last(results'[t]).value ELSE ret'[t][1]
    IN /\ f.pc = "loop"
       /\ BodiesStarted(f) = limits.maxLoopIterations
       /\ handed.exitCode = 1

LoopsAlternate ==
    \A t \in Tasks : \A d \in 1..Len(stack[t]) :
        stack[t][d].fn \in ConditionLoops => Alternates(stack[t][d])

\* C18 as stated: a while loop evaluates its condition before every iteration, executes
\* the body once for each evaluation that exits 0 and ends at the first evaluation that
\* exits non-zero; an until loop is the mirror; the exit code of the loop is that of
\* the last body execution, or 0 if the body never ran
LoopEndsByCondition ==
    /\ []LoopsAlternate
    /\ [][\A t \in Tasks : LoopReturns(t) => EndsByCondition(t)]_vars

\* C18, amended: the same, unless the iteration cap ends the loop first, which then
\* returns exit code 1
TheoremC18 ==
    /\ []LoopsAlternate
    /\ [][\A t \in Tasks : LoopReturns(t) => EndsByCondition(t) \/ EndsByCap(t)]_vars

\* the while loop ended behind one body that failed, the until loop behind one body,
\* the last loop without any
WitnessC18 ==
    /\ script[1] = LoopsEnd
    /\ limits.maxLoopIterations = MaxLimit
    /\ stack[1] = <<>>
    /\ Len(results[1]) = 4
    /\ results[1][2].value.exitCode = 1
    /\ ~Names(results[1][2].value.stderr, LoopMessage("while", MaxLimit))
    /\ results[1][3].value = Result(<<>>, <<>>, 0)
    /\ results[1][4].value = Result(<<>>, <<>>, 0)
    /\ env[<<"X">>] = <<"echo">>

----------------------------------------------------------------------------
(* for *)

\* the body executions a for loop has started were made for the items of the list in
\* order, one for each, with the variable bound to the item
BoundInOrder ==
    \A t \in Tasks : \A d \in 1..Len(stack[t]) :
        LET f == stack[t][d] IN
        f.fn = "executeForLoopBody" =>
            /\ Len(f.bound) <= Len(f.items)
            /\ f.bound = SubSeq(f.items, 1, Len(f.bound))
            /\ Len(f.bound) = Len(f.trace) + (IF f.pc = "bodyDone" THEN 1 ELSE 0)

\* the for line of task t has returned
ForReturned(t) ==
    /\ stack[t] = <<>>
    /\ results[t] # <<>>
    /\ Last(results[t]).kind = "resolved"
    /\ script[t][Len(results[t])].kind = "for"

\* C19: a for loop executes its body once for each item of its list, in the order of
\* the list, with the loop variable bound to the item; once the loop has ended, by
\* exhausting the list or by the iteration cap, the loop variable is absent from env
ForVariableGone ==
    /\ BoundInOrder
    /\ \A t \in Tasks :
          ForReturned(t) => script[t][Len(results[t])].varName \notin DOMAIN env

\* the same for the loops that came to the end of their list
ForVariableGoneAtEnd ==
    /\ BoundInOrder
    /\ \A t \in Tasks :
          (/\ ForReturned(t)
           /\ ~Names(Last(results[t]).value.stderr,
                     LoopMessage("for", limits.maxLoopIterations)))
              => /\ script[t][Len(results[t])].varName \notin DOMAIN env
                 /\ Len(Last(results[t]).value.stdout)
                       = 2 * Len(script[t][Len(results[t])].items)

----------------------------------------------------------------------------
(* if statements *)

\* the branch an if statement has to take, read off the exit codes of the conditions
\* evaluated so far: the first with a condition that exited 0 or with none; 0 if the
\* conditions so far decide for none
Due(branches, trace) ==
    LET taken == {k \in 1..Len(branches) :
                     IF branches[k].condition = NullCondition
                     THEN k = Len(trace) + 1
                     ELSE k <= Len(trace) /\ trace[k].result.exitCode = 0}
    IN IF taken = {} THEN 0 ELSE CHOOSE k \in taken : \A m \in taken : k <= m

\* the conditions were evaluated in the order of the branches, none behind the branch
\* that is due, and the body that runs is the body of that branch
IfInOrder(f) ==
    /\ \A k \in 1..Len(f.trace) :
          /\ f.trace[k].line = f.branches[k].condition
          /\ k < Len(f.trace) => f.trace[k].result.exitCode # 0
    /\ IF f.pc = "bodyDone"
       THEN Due(f.branches, f.trace) = f.b /\ Len(f.trace) \in {f.b - 1, f.b}
       ELSE Due(f.branches, f.trace) \in {0, Len(f.trace) + 1} /\ Len(f.trace) = f.b - 1

\* task t returns from an if statement
IfReturns(t) ==
    /\ stack[t] # <<>>
    /\ Top(t).fn = "executeIfStatement"
    /\ stack'[t] = SubSeq(stack[t], 1, Len(stack[t]) - 1)

\* an if statement returns when the body it ran has returned, with the exit code and
\* the output of that body, or when every condition has failed and there is no else,
\* with exit code 0 and no output
IfResult ==
    \A t \in Tasks :
        IfReturns(t) =>
            LET f == Top(t)
                handed == IF Len(stack[t]) = 1 THEN Last(results'[t]).value
                          ELSE ret'[t][1]
            IN IF f.pc = "bodyDone"
               THEN handed = ret[t][1]
               ELSE /\ Len(f.trace) = Len(f.branches)
                    /\ Due(f.branches, f.trace) = 0
                    /\ handed = Result(<<>>, <<>>, 0)

\* C17: an if statement evaluates the conditions of its branches in order, executes the
\* body of the first branch whose condition exits 0, or the else body if none does,
\* evaluates no later condition and executes no other body, and returns the exit code
\* of the executed body; when no branch is taken it returns exit code 0 and no stdout
TheoremC17 ==
    /\ [](\A t \in Tasks : \A d \in 1..Len(stack[t]) :
             stack[t][d].fn = "executeIfStatement" => IfInOrder(stack[t][d]))
    /\ [][IfResult]_vars

\* the three if lines have returned: the elif body, the else body and no body ran
WitnessC17 ==
    /\ script[1] = IfLines
    /\ stack[1] = <<>>
    /\ Len(results[1]) = 3
    /\ results[1][1].value = Result(<<"c", NL>>, <<>>, 0)
    /\ results[1][2].value = Result(<<"d", NL>>, <<>>, 0)
    /\ results[1][3].value = Result(<<>>, <<>>, 0)

----------------------------------------------------------------------------
(* Commands that throw, exit codes, redirections *)

\* the registered command of the stage throws
Thrower(parsed) == CommandName(parsed.command) \in Throwing

\* C14: if the execute of a registered command throws, the result of the stage is
\* {stdout "", stderr "<name>: <message>\n", exitCode 1} with the name as the line has
\* it, the exec call does not reject, and the next stage is gated on exit code 1: an
\* `&&` stage behind it runs only if a `!` inverted the code, an `||` stage only if not
TheoremC14 ==
    /\ \A o \in Observed : \A k \in 1..Len(o.log) :
          LET commands == o.pipeline.commands
              parsed == commands[o.log[k].i].parsed
              next == commands[o.log[k + 1].i].operator
          IN Thrower(parsed) =>
                /\ parsed.redirections = <<>> =>
                      o.log[k].result
                          = Result(<<>>, parsed.command \o <<": ">> \o ThrownMessage
                                             \o <<NL>>, 1)
                /\ o.log[k].result.exitCode = 1
                /\ k < Len(o.log) =>
                      /\ next = "&&" => commands[RunHead(commands, o.log[k].i)].negationCount = 1
                      /\ next = "||" => commands[RunHead(commands, o.log[k].i)].negationCount = 0
    /\ \A t \in Tasks :
          script[t] = CommandThrows
              => \A k \in 1..Len(results[t]) : results[t][k].kind = "resolved"

\* boom && echo a || echo b has returned: `echo a` was skipped, `echo b` ran
WitnessC14 ==
    /\ script[1] = CommandThrows
    /\ Len(results[1]) = 1
    /\ results[1][1].value
          = Result(<<"b", NL>>, <<"boom", ": ", "failed", NL>>, 0)
    /\ Executed(lastPipeline.log) = {1, 3}

\* C15: the exit code of every result exec returns is an integer in 0..255, for every
\* line, `exit N` with any numeric N and negated lines included
ExitCodeInRange ==
    \A t \in Tasks : \A k \in 1..Len(results[t]) :
        results[t][k].kind = "resolved" => results[t][k].value.exitCode \in 0..255

\* task t returns from a stage that ran a command or a function and carries one
\* redirection of stdout to a file
RedirectedStageReturns(t) ==
    /\ stack[t] # <<>>
    /\ Top(t).fn = "executeCommand"
    /\ Top(t).pc \in {"redirect", "functionDone"}
    /\ Len(Top(t).redirections) = 1
    /\ Top(t).redirections[1].type = "stdout"
    /\ stack'[t] = SubSeq(stack[t], 1, Len(stack[t]) - 1)

\* the stdout of the command of the stage, before any redirection
RawStdout(t) == IF Top(t).pc = "redirect" THEN Top(t).result.stdout ELSE ret[t][1].stdout

FileContent(data, path) ==
    IF path \in DOMAIN data /\ data[path].type = "file" THEN data[path].content ELSE <<>>

\* the file holds the stdout behind what `>>` found there, and the stage hands on none
WrittenToFile(t) ==
    LET redir == Top(t).redirections[1]
        before == IF redir.append THEN FileContent(fs, redir.target) ELSE <<>>
    IN /\ redir.target \in DOMAIN fs'
       /\ fs'[redir.target] = FileEntry(before \o RawStdout(t))
       /\ ret'[t][1].stdout = <<>>

\* C16: after `cmd > f` the content of f is exactly the stdout of cmd and the stage
\* contributes an empty stdout; after `cmd >> f` the content of f is its previous
\* content, empty if f did not exist, followed by the stdout of cmd
RedirectWrites ==
    [][\A t \in Tasks : RedirectedStageReturns(t) => WrittenToFile(t)]_vars

\* the same for the stages that run a registered command
RegisteredRedirectWrites ==
    [][\A t \in Tasks :
          (RedirectedStageReturns(t) /\ Top(t).pc = "redirect") => WrittenToFile(t)]_vars

----------------------------------------------------------------------------
(* cd *)

\* task t returns from the builtin cd
CdReturns(t) ==
    /\ stack[t] # <<>>
    /\ Top(t).fn = "executeCommand"
    /\ Top(t).pc = "cdStat"
    /\ stack'[t] = SubSeq(stack[t], 1, Len(stack[t]) - 1)

\* the directory a target stands for: `-` the previous directory, `~` and no target
\* HOME, `..` the parent of cwd, a name the entry of that name in cwd, a path itself
Stands(args) ==
    IF args = <<>> \/ args[1] = <<"~">> THEN env[<<"HOME">>]
    ELSE IF args[1] = <<"-">> THEN previousDir
    ELSE IF args[1] = <<".", ".">> THEN Dirname(cwd)
    ELSE IF args[1][1] = "/" THEN args[1]
    ELSE IF cwd = Root THEN <<"/">> \o args[1]
    ELSE cwd \o <<"/">> \o args[1]

IsDirectory(data, path) == path \in DOMAIN data /\ data[path].type = "directory"

\* cd succeeds exactly when its target stands for a directory, and moves
CdMoves ==
    \A t \in Tasks :
        CdReturns(t) =>
            LET dir == Stands(Top(t).expandedArgs) IN
            IF IsDirectory(fs, dir)
            THEN /\ ret'[t][1].exitCode = 0
                 /\ previousDir' = cwd
                 /\ cwd' = dir
            ELSE /\ ret'[t][1].exitCode = 1
                 /\ cwd' = cwd
                 /\ previousDir' = previousDir

\* C20: `cd target` succeeds only if the resolved target exists and is a directory, and
\* then sets previousDir to the old cwd and cwd to the resolved target, `-` standing
\* for previousDir and `~` for HOME; if the target is missing or is not a directory it
\* returns exit code 1 and leaves cwd and previousDir as they are
TheoremC20 == [][CdMoves]_vars

\* cd /d, cd e, cd .., cd - have moved to /d/e, and cd /f has failed and moved nowhere
WitnessC20 ==
    /\ script[1] = CdLines
    /\ Len(results[1]) = 6
    /\ results[1][5].value.exitCode = 0
    /\ results[1][6].value
          = Result(<<>>, <<"cd: ", "/", "f", ": Not a directory", NL>>, 1)
    /\ cwd = SubDir
    /\ previousDir = Dir

----------------------------------------------------------------------------
(* Unknown commands *)

BuiltinNames == {<<"cd">>, <<"export">>, <<"unset">>, <<"exit">>, <<"local">>}

\* the name of the stage stands for no builtin, no assignment, no defined function and
\* no registered command
Unknown(name, args) ==
    /\ name \notin BuiltinNames
    /\ ~IsAssignment(name, args)
    /\ name \notin DOMAIN functions
    /\ CommandName(name) \notin Registered

\* task t returns from a stage whose command name is unknown
UnknownReturns(t) ==
    /\ stack[t] # <<>>
    /\ Top(t).fn = "executeCommand"
    /\ \/ Top(t).pc = "start" /\ Unknown(Top(t).command, Top(t).args)
       \/ Top(t).pc = "dispatch" /\ Unknown(Top(t).expandedCommand, Top(t).expandedArgs)
    /\ stack'[t] = SubSeq(stack[t], 1, Len(stack[t]) - 1)

\* the name as the message has it
UnknownName(t) == IF Top(t).pc = "start" THEN Top(t).command ELSE Top(t).expandedCommand

\* the stage leaves cwd, env, the function table and the filesystem as they are
StateKept == cwd' = cwd /\ env' = env /\ functions' = functions /\ fs' = fs

\* the first `<` redirection of the stage whose file cannot be read, 0 if there is none
Unreadable(redirections, data) ==
    LET bad == {i \in 1..Len(redirections) :
                    /\ redirections[i].type = "stdin"
                    /\ ~(redirections[i].target \in DOMAIN data
                          /\ data[redirections[i].target].type = "file")}
    IN IF bad = {} THEN 0 ELSE CHOOSE i \in bad : \A j \in bad : i <= j

\* C21 as stated: an unknown command name always yields exit code 127 with a
\* `command not found` message naming it, and changes neither cwd, env, the function
\* table nor the filesystem
UnknownAlwaysNotFound ==
    [][\A t \in Tasks :
          UnknownReturns(t) =>
              /\ ret'[t][1] = Result(<<>>, <<"bash: ">> \o UnknownName(t)
                                              \o <<": command not found", NL>>, 127)
              /\ StateKept]_vars

\* C21: an unknown command name yields exit code 127 with a `command not found` message
\* naming it, unless a `<` redirection of the stage names a file that cannot be read,
\* which fails the stage with exit code 1 and a `No such file or directory` message
\* before the name is looked up; in both cases cwd, env, the function table and the
\* filesystem stay as they are
TheoremC21 ==
    [][\A t \in Tasks :
          UnknownReturns(t) =>
              LET bad == Unreadable(Top(t).redirections, fs) IN
              /\ IF bad = 0
                 THEN ret'[t][1] = Result(<<>>, <<"bash: ">> \o UnknownName(t)
                                                   \o <<": command not found", NL>>, 127)
                 ELSE ret'[t][1] = Result(<<>>, <<"bash: ">> \o Top(t).redirections[bad].target
                                                   \o <<": No such file or directory", NL>>, 1)
              /\ StateKept]_vars

\* `nope a > /out` has returned 127 and written no file, `nope < /missing` has returned 1
WitnessC21 ==
    /\ script[1] = UnknownCommands
    /\ Len(results[1]) = 6
    /\ results[1][2].value
          = Result(<<>>, <<"bash: ", "nope", ": command not found", NL>>, 127)
    /\ <<"/", "out">> \notin DOMAIN fs
    /\ results[1][5].value.exitCode = 127
    /\ results[1][6].value.exitCode = 1

----------------------------------------------------------------------------
(* The order of the stages of a line *)

\* the stages of a log ran from left to right, and each had returned before the next
\* one started
LeftToRight ==
    /\ \A o \in Observed : \A k \in 2..Len(o.log) : o.log[k - 1].i < o.log[k].i
    /\ \A t \in Tasks : \A d \in 1..Len(stack[t]) :
          LET f == stack[t][d] IN
          f.fn = "executePipeline" =>
              /\ \A k \in 1..Len(f.log) : f.log[k].i < f.i
              /\ d < Len(stack[t]) => f.pc = "stageDone" /\ stack[t][d + 1].fn = "executeCommand"

\* entry j of the log is `echo ... > path` or `echo ... >> path`
WritesTo(commands, log, j, path) ==
    LET parsed == commands[log[j].i].parsed IN
    /\ parsed.command = <<"echo">>
    /\ Len(parsed.redirections) = 1
    /\ parsed.redirections[1].type = "stdout"
    /\ parsed.redirections[1].target = path

Overwrites(commands, log, j, path) ==
    WritesTo(commands, log, j, path) /\ ~commands[log[j].i].parsed.redirections[1].append

RECURSIVE WrittenBy(_, _, _, _, _)
\* the text the entries from..to of the log write to the path, in their order
WrittenBy(commands, log, from, to, path) ==
    IF from > to THEN <<>>
    ELSE (IF WritesTo(commands, log, from, path)
          THEN Join(commands[log[from].i].parsed.args, <<SP>>) \o <<NL>>
          ELSE <<>>)
         \o WrittenBy(commands, log, from + 1, to, path)

\* a `head path` stage prints what the stages before it on its line have written to
\* the path, from the last `>` on
ReadsSeeWrites ==
    \A o \in Observed : \A k \in 1..Len(o.log) :
        LET commands == o.pipeline.commands
            parsed == commands[o.log[k].i].parsed
            over == {j \in 1..(k - 1) : Overwrites(commands, o.log, j, parsed.args[1])}
        IN (parsed.command = <<"head">> /\ Len(parsed.args) = 1 /\ over # {}) =>
               o.log[k].result.stdout
                   = WrittenBy(commands, o.log, CHOOSE j \in over : \A m \in over : m <= j,
                               k - 1, parsed.args[1])

\* a frame that awaits a nested call does not go on before the call has returned
CallerWaits ==
    \A t \in Tasks :
        \/ stack'[t] = <<>>
        \/ \A d \in 1..(Len(stack[t]) - 1) :
              d <= Len(stack'[t]) /\ stack'[t][d] = stack[t][d]

\* what the lines of VisibleWrites print, each stage reading what the stages, function
\* bodies and conditions before it have written
VisibleWritesSeen ==
    \A t \in Tasks :
        script[t] = VisibleWrites =>
            \A k \in 1..Len(results[t]) :
                /\ results[t][k].kind = "resolved"
                /\ results[t][k].value.stdout
                      = <<<<"a", NL>>, <<"a", NL, "b", NL>>, <<"c", NL, "d", NL, "e", NL>>,
                          <<>>, <<"g", NL>>, <<"h", NL>>>>[k]

\* C22: the stages of a line execute from left to right, one at a time: a stage, its
\* redirection writes included, completes before the next stage starts, and a nested
\* exec of a body or a condition completes before its caller goes on, so that a stage
\* reads what the stages before it on the line have written
TheoremC22 ==
    /\ []LeftToRight
    /\ []ReadsSeeWrites
    /\ []VisibleWritesSeen
    /\ [][CallerWaits]_vars

\* echo c > /out ; echo d >> /out ; head /out ; echo e > /out ; head /out has returned
WitnessC22 ==
    /\ script[1] = VisibleWrites
    /\ Len(results[1]) = 3
    /\ Len(lastPipeline.log) = 5
    /\ lastPipeline.log[3].result.stdout = <<"c", NL, "d", NL>>
    /\ lastPipeline.log[5].result.stdout = <<"e", NL>>
    /\ fs[Out].content = <<"e", NL>>

----------------------------------------------------------------------------
(* local, unset and what lasts from one call of exec to the next *)

\* task t returns from the builtin of the given name
BuiltinReturns(t, name) ==
    /\ stack[t] # <<>>
    /\ Top(t).fn = "executeCommand"
    /\ Top(t).pc = "dispatch"
    /\ Top(t).expandedCommand = name
    /\ stack'[t] = SubSeq(stack[t], 1, Len(stack[t]) - 1)

\* C23: `local` executed while no function call is active returns exit code 1 with an
\* error message and leaves env and the scope stack as they are; inside a function
\* call it returns exit code 0
LocalNeedsCall ==
    [][\A t \in Tasks :
          BuiltinReturns(t, <<"local">>) =>
              IF ActiveCalls = 0
              THEN /\ ret'[t][1].exitCode = 1
                   /\ ret'[t][1].stderr # <<>>
                   /\ env' = env
                   /\ localScopes' = localScopes
              ELSE ret'[t][1].exitCode = 0]_vars

\* the names `unset` is given
UnsetNames(t) == {Top(t).expandedArgs[i] : i \in 1..Len(Top(t).expandedArgs)}

\* a step of `unset`: exit code 0 and nothing said, every name given gone from env and
\* every other name with the value it had, nothing else of the shell touched
UnsetRemoves(t) ==
    /\ ret'[t] = <<Result(<<>>, <<>>, 0)>>
    /\ DOMAIN env' = DOMAIN env \ UnsetNames(t)
    /\ \A n \in DOMAIN env' : env'[n] = env[n]
    /\ UnsetNames(t) \cap DOMAIN env = {} => env' = env
    /\ UNCHANGED <<cwd, previousDir, functions, fs, localScopes, callDepth>>

\* C26: `unset NAME` for a NAME that is not in env returns exit code 0 with empty
\* stderr and leaves env, cwd and the function table as they are; for a NAME that is in
\* env it removes that key and no other
TheoremC26 ==
    [][\A t \in Tasks : BuiltinReturns(t, <<"unset">>) => UnsetRemoves(t)]_vars

\* `unset Y Z` in the body of f has removed Y, which line 2 had set, and Z was never
\* there; the function f is still defined and `echo $Y` has printed an empty line
WitnessC26 ==
    /\ script[1] = Unsets
    /\ Len(results[1]) = 4
    /\ results[1][4].kind = "resolved"
    /\ results[1][4].value = Result(<<NL>>, <<>>, 0)
    /\ <<"Y">> \notin DOMAIN env
    /\ <<"f">> \in DOMAIN functions

\* task t is at the entry of a top-level call of exec
TopLevelEntry(t) ==
    /\ Len(stack[t]) = 1
    /\ Top(t).fn = "exec"
    /\ Top(t).pc = "entry"

\* C27: what one top-level call of exec leaves in cwd, env, the function table and the
\* filesystem is what the next one finds, and commandCount starts again from 0 in each
\* top-level call: its entry is counted as the first
SessionKeptCountRestarts ==
    [][/\ NoExecActive => UNCHANGED <<cwd, previousDir, env, functions, fs>>
       /\ \A t \in Tasks : TopLevelEntry(t) => commandCount' = 1]_vars

----------------------------------------------------------------------------
(* exit and the stages after it *)

\* the a-th stage that a pipeline executed was `exit`
ExitExecuted(p, a) == p.pipeline.commands[p.log[a].i].parsed.command = <<"exit">>

\* C28: after an `exit` stage has executed no later stage of the line executes,
\* whatever operator introduces it, and the line's exit code is the one `exit` gave
ExitEndsLine ==
    lastPipeline # NoPipeline =>
        \A a \in 1..Len(lastPipeline.log) :
            ExitExecuted(lastPipeline, a) =>
                /\ a = Len(lastPipeline.log)
                /\ lastPipeline.pipeline.commands[lastPipeline.log[a].i].negationCount = 0
                       => lastPipeline.result.exitCode = lastPipeline.log[a].result.exitCode

----------------------------------------------------------------------------
(* A skipped stage and the stages it pipes into *)

\* a pipeline executed its stage j
InLog(p, j) == \E a \in 1..Len(p.log) : p.log[a].i = j

\* the stages of the pipe-connected run that starts at stage j
RunOf(commands, j) ==
    {k \in j..Len(commands) : \A m \in (j + 1)..k : commands[m].operator = ""}

\* stage j starts a run and its operator skipped it
HeadSkipped(p, j) ==
    /\ p.pipeline.commands[j].operator \in {"&&", "||"}
    /\ ~InLog(p, j)

\* the exit code the line had when it came to stage j: the one of the last stage
\* executed before j, inverted if its run is negated
ExitCodeBefore(p, j) ==
    LET before == {a \in 1..Len(p.log) : p.log[a].i < j}
        last == CHOOSE a \in before : \A b \in before : b <= a
        head == RunHead(p.pipeline.commands, p.log[last].i)
    IN IF before = {} THEN 0
       ELSE Negate(p.log[last].result, p.pipeline.commands[head].negationCount).exitCode

\* C29: if the first stage of a pipe-connected run is skipped by its `&&` or `||`, no
\* later stage of that run executes, and if the run ends the line the line's exit code
\* stays the one it had before the run
SkippedRunStaysSkipped ==
    lastPipeline # NoPipeline =>
        LET commands == lastPipeline.pipeline.commands IN
        \A j \in 1..Len(commands) :
            HeadSkipped(lastPipeline, j) =>
                /\ \A k \in RunOf(commands, j) : ~InLog(lastPipeline, k)
                /\ Len(commands) \in RunOf(commands, j)
                       => lastPipeline.result.exitCode = ExitCodeBefore(lastPipeline, j)

----------------------------------------------------------------------------
(* Positional parameters *)

\* the frames of task t that wait for the body of a function
CallFrames(t) ==
    {k \in 1..Len(stack[t]) :
        stack[t][k].fn = "executeCommand" /\ stack[t][k].pc = "functionDone"}

\* the positional parameters in env: `@`, `#` and the names that are a number
PositionalIn(e) ==
    [n \in {m \in DOMAIN e : m \in {<<"@">>, <<"#">>} \/ (Len(m) = 1 /\ IsNumeral(m[1]))}
        |-> e[n]]

\* C30: positional parameters are per call: while a call is active, and so again after
\* a nested call has returned, env holds `$1..$N`, `$@` and `$#` of the innermost
\* active call and no positional parameter beyond its N; once the outermost call has
\* returned they are absent from env
PositionalPerCall ==
    /\ \A t \in Tasks :
          CallFrames(t) # {} =>
              LET k == CHOOSE c \in CallFrames(t) : \A d \in CallFrames(t) : d <= c
              IN PositionalIn(env) = BindPositional(<<>>, stack[t][k].expandedArgs)
    /\ NoExecActive => PositionalIn(env) = <<>>

----------------------------------------------------------------------------
(* Redirections *)

\* task t returns from a stage, whatever the stage dispatched to
StageReturns(t) ==
    /\ stack[t] # <<>>
    /\ Top(t).fn = "executeCommand"
    /\ stack'[t] = SubSeq(stack[t], 1, Len(stack[t]) - 1)
    /\ ret'[t] # <<>>

\* the redirections are of stdout and stderr to a file or to /dev/null only
OutputRedirections(redirections) ==
    \A i \in 1..Len(redirections) :
        redirections[i].type \in {"stdout", "stderr"} /\ redirections[i].target # <<>>

\* C31: a redirection attached to a stage is applied whatever the stage dispatches to:
\* `> f` leaves f in the filesystem and removes stdout from the stage's result, and a
\* redirection of stderr removes stderr from it
RedirectionsAlwaysApplied ==
    [][\A t \in Tasks :
          (StageReturns(t) /\ OutputRedirections(Top(t).redirections)) =>
              \A i \in 1..Len(Top(t).redirections) :
                  LET redir == Top(t).redirections[i] IN
                  IF redir.type = "stdout"
                  THEN ret'[t][1].stdout = <<>> /\ redir.target \in DOMAIN fs'
                  ELSE ret'[t][1].stderr = <<>>]_vars

\* the step of task t in which a write or an append of a redirection fails
RedirectionFails(t) ==
    /\ stack[t] # <<>>
    /\ Top(t).fn = "executeCommand"
    /\ Top(t).pc = "redirect"
    /\ ~ApplyRedirections(Top(t).result, Top(t).redirections, fs).ok
    /\ stack'[t] # stack[t]

\* C32: exec never raises: every top-level call ends with a result, and when a write or
\* an append made for a redirection fails the stage returns a result with a non-zero
\* exit code
ExecNeverRaises ==
    [][\A t \in Tasks :
          /\ Len(results'[t]) > Len(results[t])
                => results'[t][Len(results'[t])].kind = "resolved"
          /\ RedirectionFails(t) => (ret'[t] # <<>> /\ ret'[t][1].exitCode # 0)]_vars

----------------------------------------------------------------------------
(* Nested if statements *)

\* C33: the if-parser counts depth up at a nested `if` only and down at `fi` only, and
\* copies the `then`, `elif` and `else` of a nested if into the enclosing body, so
\* every well-formed statement with a nested if/elif/else/fi parses without error and
\* closes at the outer `fi`: each of the three statements of NestedIfTexts prints the
\* word of the branch of the nested statement that is taken
NestedIfParses ==
    \A t \in Tasks :
        script[t] = NestedIfTexts =>
            \A k \in 1..Len(results[t]) :
                /\ ParseIfStatement(NestedIfTexts[k].text).error = <<>>
                /\ results[t][k] =
                       Resolved(Result(<<IF k = 1 THEN "a" ELSE "b", NL>>, <<>>, 0))

----------------------------------------------------------------------------
(* The iteration cap and the end of a loop *)

\* the condition is one stage without negation and redirection that runs a registered
\* command or no command at all
PlainCondition(line) ==
    /\ line.kind = "simple"
    /\ Len(line.pipelines) = 1
    /\ Len(line.pipelines[1].commands) = 1
    /\ LET stage == line.pipelines[1].commands[1]
           name == ExpandVariables(stage.parsed.command, env)
       IN /\ stage.negationCount = 0
          /\ stage.parsed.redirections = <<>>
          /\ ~Builtin(name, stage.parsed.args)
          /\ ~IsFunction(name, functions)
          /\ CommandName(name) \notin Throwing

\* the exit code a plain condition has if it is evaluated now
ConditionCode(line) ==
    LET parsed == line.pipelines[1].commands[1].parsed
        name == CommandName(ExpandVariables(parsed.command, env))
    IN IF name \in Registered
       THEN Execute(name, ExpandArgs(parsed.args, parsed.quotedArgs, env), <<>>, fs).exitCode
       ELSE 127

\* the loop at the head of which task t stands would execute its body once more
WouldRunBody(t) ==
    \/ Top(t).fn = "executeForLoopBody"
    \/ Enters(Top(t).fn, ConditionCode(Top(t).condition))

\* C34: the iteration cap ends a loop only when the loop would execute its body more
\* than maxLoopIterations times; a for, while or until loop whose body ran
\* maxLoopIterations times and whose list or condition then ends it returns without
\* the limit message
CapOnlyBeyond ==
    [][\A t \in Tasks :
          (/\ AtLoopHead(t)
           /\ Top(t).fn # "executeForLoopBody" => PlainCondition(Top(t).condition)
           /\ stack'[t] = SubSeq(stack[t], 1, Len(stack[t]) - 1))
              => WouldRunBody(t)]_vars

----------------------------------------------------------------------------
(* The record of a scope frame *)

\* what a frame has recorded for a name stays as it is as long as the frame exists
RecordsKept ==
    \A k \in 1..Len(localScopes) :
        k <= Len(localScopes') =>
            \A n \in DOMAIN localScopes[k] :
                /\ n \in DOMAIN localScopes'[k]
                /\ localScopes'[k][n] = localScopes[k][n]

\* `local` records in the innermost frame only, and for a name the frame has no record
\* of it records the value the name has then
FirstLocalRecords ==
    \A t \in Tasks :
        (BuiltinReturns(t, <<"local">>) /\ localScopes # <<>>) =>
            LET k == Len(localScopes) IN
            /\ Len(localScopes') = k
            /\ \A j \in 1..(k - 1) : localScopes'[j] = localScopes[j]
            /\ \A n \in DOMAIN localScopes'[k] \ DOMAIN localScopes[k] :
                  localScopes'[k][n] = EnvGet(env, n)

\* task t returns from the call of a function
CallReturns(t) ==
    /\ stack[t] # <<>>
    /\ Top(t).fn = "executeCommand"
    /\ Top(t).pc = "functionDone"
    /\ stack'[t] = SubSeq(stack[t], 1, Len(stack[t]) - 1)

\* the return of a call puts back what its frame recorded
RecordRestored ==
    \A t \in Tasks :
        (CallReturns(t) /\ localScopes # <<>>) =>
            \A n \in DOMAIN localScopes[Len(localScopes)] :
                EnvGet(env', n) = localScopes[Len(localScopes)][n]

\* after `local X=1; local X=2; X=3` in f and `local X=4` in g, called from f, each
\* call has returned with the X it was entered with
TwiceLocalRestored ==
    (script[1] = TwiceLocal /\ lastCall.call.name \in {<<"f">>, <<"g">>}) =>
        EnvGet(lastCall.env, <<"X">>) = EnvGet(lastCall.call.entryEnv, <<"X">>)

\* C35: within one scope frame the value of a name is recorded by the first `local` of
\* that name only; a later `local` of the name in the frame and the assignments to it
\* never overwrite the record, so after `local X=1; local X=2` the return restores the
\* value X had before the call, and the frame of every nested call records on its own
TheoremC35 ==
    /\ [][RecordsKept /\ FirstLocalRecords /\ RecordRestored]_vars
    /\ []TwiceLocalRestored

\* f has returned: it printed the 3 assigned after its two declarations and after the
\* call of g, and X is "outer" again
WitnessC35 ==
    /\ script[1] = TwiceLocal
    /\ Len(results[1]) = 3
    /\ results[1][3] = Resolved(Result(<<"3", NL, "outer", NL>>, <<>>, 0))
    /\ EnvGet(env, <<"X">>) = <<"outer">>
    /\ localScopes = <<>>

----------------------------------------------------------------------------
(* Redirections in the order written *)

\* task t returns from the redirections of a registered command
RedirectReturns(t) ==
    /\ stack[t] # <<>>
    /\ Top(t).fn = "executeCommand"
    /\ Top(t).pc = "redirect"
    /\ stack'[t] = SubSeq(stack[t], 1, Len(stack[t]) - 1)
    /\ ret'[t] # <<>>

\* C36: the redirections of a stage take effect left to right on the streams: with
\* the list [stdout to file f, stderr-to-stdout] (`cmd > f 2>&1`) f holds the command's
\* stdout and its stderr and both streams of the stage's result are empty
MergeFollowsFile ==
    [][\A t \in Tasks :
          (/\ RedirectReturns(t)
           /\ Len(Top(t).redirections) = 2
           /\ Top(t).redirections[1].type = "stdout"
           /\ Top(t).redirections[1].target # <<>>
           /\ ~Top(t).redirections[1].append
           /\ Top(t).redirections[2].type = "stderr-to-stdout") =>
              LET f == Top(t).redirections[1].target IN
              /\ ret'[t][1].stdout = <<>>
              /\ ret'[t][1].stderr = <<>>
              /\ f \in DOMAIN fs'
              /\ fs'[f] = FileEntry(Top(t).result.stdout \o Top(t).result.stderr)]_vars

----------------------------------------------------------------------------
(* Calls of exec that overlap *)

\* every call of both callers has come to its end
AllReturned == \A t \in Tasks : stack[t] = <<>> /\ Len(results[t]) = Len(script[t])

----------------------------------------------------------------------------
(* Stored paths and their parents *)

\* the parent VirtualFs.dirname gives is stored, as a directory
ParentIsDirectory(data, path) ==
    Dirname(path) \in DOMAIN data /\ data[Dirname(path)].type = "directory"

\* C38: after any sequence of VirtualFs operations every stored path other than `/`
\* has its parent path stored as a directory entry.  Violated: writeFileSync stores
\* /out/g although ensureParentDirs found /out stored as a file.
ParentsAreDirectories == \A path \in DOMAIN fs \ {Root} : ParentIsDirectory(fs, path)

----------------------------------------------------------------------------
(* Expansion *)

\* what an argument stands for: a quoted one and one without `$` for itself, `$NAME`
\* and `${NAME}` for the value of NAME or the empty string, `${NAME:-default}` for the
\* value of NAME, the empty one included, or the default if NAME is not in env
Said(arg, quoted, e) ==
    IF quoted \/ IndexOf(arg, "$") = 0 THEN <<arg>>
    ELSE IF Len(arg) = 2 /\ arg[1] = "$"
    THEN <<IF <<arg[2]>> \in DOMAIN e THEN e[<<arg[2]>>] ELSE <<>>>>
    ELSE IF Len(arg) = 4 /\ SubSeq(arg, 1, 2) = <<"$", "{">> /\ arg[4] = "}"
    THEN <<IF <<arg[3]>> \in DOMAIN e THEN e[<<arg[3]>>] ELSE <<>>>>
    ELSE IF /\ Len(arg) \in {6, 7} /\ SubSeq(arg, 1, 2) = <<"$", "{">>
            /\ SubSeq(arg, 4, 5) = <<":", "-">> /\ arg[Len(arg)] = "}"
    THEN <<IF <<arg[3]>> \in DOMAIN e THEN e[<<arg[3]>>] ELSE SubSeq(arg, 6, Len(arg) - 1)>>
    ELSE <<>>

\* task t expands the arguments of a stage
Expands(t) ==
    /\ stack[t] # <<>>
    /\ Top(t).fn = "executeCommand"
    /\ Top(t).pc = "start"
    /\ Len(stack'[t]) = Len(stack[t])

ExpandsAsSaid ==
    \A t \in Tasks :
        Expands(t) =>
            \A i \in 1..Len(Top(t).args) :
                LET said == Said(Top(t).args[i], Top(t).quotedArgs[i], env) IN
                said # <<>> => stack'[t][Len(stack[t])].expandedArgs[i] = said[1]

\* no line of Expansions fails, whatever is set
ExpansionsSucceed ==
    \A t \in Tasks :
        script[t] = Expansions =>
            \A k \in 1..Len(results[t]) :
                /\ results[t][k].kind = "resolved"
                /\ results[t][k].value.exitCode = 0
                /\ results[t][k].value.stderr = <<>>

----------------------------------------------------------------------------
(* The syntax of if statements *)

Count(text, atom) == Cardinality({i \in 1..Len(text) : text[i] = atom})

\* the keywords `if` and `fi` do not balance, or there are fewer `then` than conditions
Malformed(text) ==
    \/ Count(text, "if") # Count(text, "fi")
    \/ Count(text, "then") < Count(text, "if") + Count(text, "elif")

\* C25: an if statement in which a condition, of `if` or of an `elif`, is not followed
\* by `then`, or whose `if` and `fi` are unbalanced, returns exit code 2 with empty
\* stdout and an error on stderr, and executes no condition and no body
IfSyntaxErrors ==
    \A t \in Tasks : \A k \in 1..Len(results[t]) :
        (script[t][k].kind = "iftext" /\ Malformed(script[t][k].text)) =>
            /\ results[t][k].kind = "resolved"
            /\ results[t][k].value.exitCode = 2
            /\ results[t][k].value.stdout = <<>>
            /\ results[t][k].value.stderr # <<>>
            /\ (k = Len(results[t]) /\ stack[t] = <<>>) => checks[t].passed = 1

====
